---- MODULE Spec2Model ----
(***************************************************************************)
(* Model of cypher-rs: the in-memory property graph (src/src/graph.rs),    *)
(* the query executor (src/src/engine/executor.rs) and the aggregate       *)
(* evaluator (src/src/engine/functions/aggregate.rs).                      *)
(*                                                                         *)
(* Conventions.  A Rust String that can become a value (node id, property  *)
(* text, relationship type, literal) is a sequence of character codes, so  *)
(* that ordering and substring search are computed.  Names that are only   *)
(* compared for equality (variables, labels, property keys) and column     *)
(* names are TLA+ strings.  Option<T> is <<>> for None and <<x>> for       *)
(* Some(x).  Node indices are 0-based as in the source.                    *)
(***************************************************************************)
EXTENDS Integers, Sequences, FiniteSets, TLC

VARIABLES
    nodes,          \* Graph.nodes
    edges,          \* Graph.edges
    id_map,         \* Graph.id_map
    query,          \* the ast::Query of the last call, None before a call
    final_bindings, \* the local bindings_list of that call after MATCH and WHERE
    result,         \* what the call returned
    text,           \* the query text, when the call came through engine::execute
    single,         \* what QueryResult::get_single_value returned for result
    calls,          \* per caller of execute on the graph: the text sent and the result held
    api             \* the last call of add_node, get_node_index and get_node, and what it returned

vars == <<nodes, edges, id_map, query, final_bindings, result, text, single, calls, api>>

\* ------------------------------------------------------------------------
\* Bounds of the model
\* ------------------------------------------------------------------------
MaxNodes == 2
MaxEdges == 2
\* nodes and edges together
MaxSize == 4
\* callers that hold a result of the same graph
MaxCallers == 2
\* nodes of the graphs the SUM queries run on
MaxPeople == 3

\* ------------------------------------------------------------------------
\* Option and small helpers
\* ------------------------------------------------------------------------
None == <<>>
Some(x) == <<x>>
IsSome(o) == o # <<>>
Unwrap(o) == o[1]

Min(a, b) == IF a <= b THEN a ELSE b

RECURSIVE ConcatAll(_)
ConcatAll(seqs) ==
    IF seqs = <<>> THEN <<>> ELSE Head(seqs) \o ConcatAll(Tail(seqs))

\* ------------------------------------------------------------------------
\* Strings as sequences of character codes
\* ------------------------------------------------------------------------
RECURSIVE Digits(_)
Digits(n) == IF n < 10 THEN <<48 + n>> ELSE Digits(n \div 10) \o <<48 + (n % 10)>>

\* i64::to_string / serde_json Number::to_string for an integer
IntToString(n) == IF n < 0 THEN <<45>> \o Digits(0 - n) ELSE Digits(n)

\* bool::to_string: "true" / "false"
BoolToString(b) == IF b THEN <<116, 114, 117, 101>> ELSE <<102, 97, 108, 115, 101>>

\* the text "null"
NullStr == <<110, 117, 108, 108>>

\* Ord for String: byte-wise lexicographic, then by length.  -1, 0 or 1.
StrCmp(a, b) ==
    LET l == Min(Len(a), Len(b))
        diff == {i \in 1..l : a[i] # b[i]}
    IN
    IF diff # {}
    THEN LET i == CHOOSE j \in diff : \A k \in diff : j <= k
         IN  IF a[i] < b[i] THEN 0 - 1 ELSE 1
    ELSE IF Len(a) < Len(b) THEN 0 - 1
         ELSE IF Len(a) > Len(b) THEN 1 ELSE 0

\* str::contains(&String): b occurs in a as a contiguous substring
StrContains(a, b) ==
    \E i \in 0..(Len(a) - Len(b)) : SubSeq(a, i + 1, i + Len(b)) = b

\* ------------------------------------------------------------------------
\* JSON values (serde_json::Value) held in a node's property bag
\* ------------------------------------------------------------------------
JNull == [t |-> "Null"]
JBool(b) == [t |-> "Bool", b |-> b]
JNumber(n) == [t |-> "Number", n |-> n]
JString(s) == [t |-> "String", s |-> s]

\* ------------------------------------------------------------------------
\* Graph model: Node, Edge, Graph
\* ------------------------------------------------------------------------
\* Node::new(id, label, data); data is a JSON object, a map key -> Value
Node(id, label, data) == [id |-> id, label |-> label, data |-> data]

\* Edge::new(from, to, rel_type)
Edge(from, to, rel_type) == [from |-> from, to |-> to, rel_type |-> rel_type]

\* The graph value handed to the executor
Graph == [nodes |-> nodes, edges |-> edges, id_map |-> id_map]

\* graph.nodes[idx], idx 0-based
NodeAt(g, idx) == g.nodes[idx + 1]

\* Node::get_property
GetProperty(node, key) ==
    IF key \in DOMAIN node.data THEN Some(node.data[key]) ELSE None

\* Node::get_property_as_string
GetPropertyAsString(node, key) ==
    LET o == GetProperty(node, key) IN
    IF ~IsSome(o) THEN None
    ELSE LET v == Unwrap(o) IN
         CASE v.t = "String" -> Some(v.s)
           [] v.t = "Number" -> Some(IntToString(v.n))
           [] v.t = "Bool"   -> Some(BoolToString(v.b))
           [] OTHER          -> None

\* GetPropertyAsI64 as it would be if a one-digit string counted as its number
GetPropertyAsI64Lenient(node, key) ==
    LET o == GetProperty(node, key) IN
    IF ~IsSome(o) THEN None
    ELSE LET v == Unwrap(o) IN
         IF v.t = "Number" THEN Some(v.n)
         ELSE IF v.t = "String" /\ Len(v.s) = 1 /\ v.s[1] \in 48..57
              THEN Some(v.s[1] - 48)
              ELSE None

\* Node::get_property_as_i64
GetPropertyAsI64(node, key) ==
    LET o == GetProperty(node, key) IN
    IF ~IsSome(o) THEN None
    ELSE LET v == Unwrap(o) IN
         IF v.t = "Number" THEN Some(v.n) ELSE None

\* Relationship types and node templates the graph is built from.
Knows == <<107, 110, 111, 119, 115>>
Likes == <<108, 105, 107, 101, 115>>
RelTypes == {Knows, Likes}

NodePool ==
    { Node(<<49>>, Some("admin"),
           [k \in {"id", "age", "name"} |->
              CASE k = "id" -> JString(<<49>>)
                [] k = "age" -> JNumber(10)
                [] OTHER -> JString(<<97, 98>>)]),
      Node(<<50>>, Some("user"),
           [k \in {"id", "age"} |->
              CASE k = "id" -> JString(<<50>>)
                [] OTHER -> JNumber(2)]),
      Node(<<51>>, None,
           [k \in {"id", "age", "name"} |->
              CASE k = "id" -> JString(<<51>>)
                [] k = "age" -> JString(<<57>>)
                [] OTHER -> JString(<<98>>)]) }

\* the callers, and a caller that holds no result
Callers == 1..MaxCallers
IdleCall == [pc |-> "idle", text |-> None, iter |-> None, result |-> None]

\* query, final_bindings and result record the last call on the graph as it
\* is now; a change of the graph ends that record
NoCall ==
    /\ query' = None
    /\ final_bindings' = None
    /\ result' = None
    /\ text' = None
    /\ single' = None

\* Graph::new
Init ==
    /\ nodes = <<>>
    /\ edges = <<>>
    /\ id_map = [i \in {} |-> 0]
    /\ query = None
    /\ final_bindings = None
    /\ result = None
    /\ text = None
    /\ single = None
    /\ calls = [c \in Callers |-> IdleCall]
    /\ api = None

\* Graph::add_node
AddNode(node) ==
    /\ Len(nodes) < MaxNodes
    /\ Len(nodes) + Len(edges) < MaxSize
    /\ id_map' = [i \in DOMAIN id_map \cup {node.id} |->
                    IF i = node.id THEN Len(nodes) ELSE id_map[i]]
    /\ nodes' = Append(nodes, node)
    /\ api' = Some([call |-> "add_node", idx |-> Len(nodes)])
    /\ UNCHANGED <<edges, calls>>
    /\ NoCall

\* Graph::add_edge, called as the loader calls it: both ends are indices of
\* nodes already in the graph
AddEdge(from, to, rel_type) ==
    /\ Len(edges) < MaxEdges
    /\ Len(nodes) + Len(edges) < MaxSize
    /\ from < Len(nodes)
    /\ to < Len(nodes)
    /\ edges' = Append(edges, Edge(from, to, rel_type))
    /\ UNCHANGED <<nodes, id_map, calls, api>>
    /\ NoCall

\* Graph::add_edge with unchecked indices: the method validates nothing
AddEdgeUnchecked(from, to, rel_type) ==
    /\ Len(edges) < MaxEdges
    /\ Len(nodes) + Len(edges) < MaxSize
    /\ (from >= Len(nodes) \/ to >= Len(nodes))
    /\ edges' = Append(edges, Edge(from, to, rel_type))
    /\ UNCHANGED <<nodes, id_map, calls, api>>
    /\ NoCall

\* get_node_index as it would be if the first node with the id were found
GetNodeIndexFirst(g, id) ==
    IF \E k \in 1..Len(g.nodes) : g.nodes[k].id = id
    THEN Some(CHOOSE k \in 0..(Len(g.nodes) - 1) :
                 /\ g.nodes[k + 1].id = id
                 /\ \A j \in 1..k : g.nodes[j].id # id)
    ELSE None

\* Graph::get_node_index
GetNodeIndex(g, id) ==
    IF id \in DOMAIN g.id_map THEN Some(g.id_map[id]) ELSE None

\* Graph::get_node
GetNode(g, id) ==
    IF id \in DOMAIN g.id_map THEN Some(NodeAt(g, g.id_map[id])) ELSE None

\* a caller looks an id up with get_node_index and with get_node
Lookup(id) ==
    /\ api' = Some([call |-> "get_node", id |-> id,
                    index |-> GetNodeIndex(Graph, id), node |-> GetNode(Graph, id)])
    /\ UNCHANGED <<nodes, edges, id_map, query, final_bindings, result, text, single, calls>>

\* the ids of NodePool and an id no node has
NextGraph ==
    \/ \E node \in NodePool : AddNode(node)
    \/ \E from, to \in 0..(MaxNodes - 1), rel_type \in RelTypes : AddEdge(from, to, rel_type)
    \/ \E id \in {<<49>>, <<50>>, <<51>>, <<52>>} : Lookup(id)

SpecGraph == Init /\ [][NextGraph]_vars

\* build_graph_from_json with config.id_field "id", no label field and the
\* one relation field "knows". json is what lies at config.node_path: an array
\* of elements, or something else. An element has id (Some(text), or None when
\* the field is missing or not a string) and knows: absent, one string, or an
\* array of entries, each Some(text) or None for an entry that is not a string
\* The data of a node is the whole element (node_json.clone()): its id and,
\* when present, its knows field
BuildGraphFromJson(json) ==
    IF json.kind # "array" \/ \E k \in 1..Len(json.elements) : json.elements[k].id = None
    THEN [ok |-> FALSE, graph |-> [nodes |-> <<>>, edges |-> <<>>, id_map |-> [i \in {} |-> 0]]]
    ELSE LET arr == json.elements
             ns == [k \in 1..Len(arr) |->
                      Node(Unwrap(arr[k].id), None,
                           [f \in {"id"} \cup (IF arr[k].knows.kind = "absent"
                                                THEN {} ELSE {"knows"}) |->
                              CASE f = "id" -> JString(Unwrap(arr[k].id))
                                [] arr[k].knows.kind = "string" -> JString(arr[k].knows.to)
                                [] OTHER -> [t |-> "Array"]])]
             index == [i \in {ns[k].id : k \in 1..Len(ns)} |->
                         CHOOSE idx \in 0..(Len(ns) - 1) :
                             /\ ns[idx + 1].id = i
                             /\ \A j \in (idx + 2)..Len(ns) : ns[j].id # i]
             entries(k) ==
                 CASE arr[k].knows.kind = "array"  -> arr[k].knows.entries
                   [] arr[k].knows.kind = "string" -> <<Some(arr[k].knows.to)>>
                   [] OTHER                        -> <<>>
             known(entry) == IsSome(entry) /\ Unwrap(entry) \in DOMAIN index
             of(k) == LET tos == SelectSeq(entries(k), known) IN
                      [j \in 1..Len(tos) |->
                          Edge(index[Unwrap(arr[k].id)], index[Unwrap(tos[j])], Knows)]
         IN  [ok |-> TRUE,
              graph |-> [nodes |-> ns,
                         edges |-> ConcatAll([k \in 1..Len(arr) |-> of(k)]),
                         id_map |-> index]]

\* JsonStorage::load_graph_sync on the empty model: the graph it returns
\* becomes the graph, a failure leaves none
LoadGraph(json) ==
    /\ nodes = <<>> /\ api = None
    /\ LET built == BuildGraphFromJson(json) IN
           /\ nodes' = built.graph.nodes
           /\ edges' = built.graph.edges
           /\ id_map' = built.graph.id_map
           /\ api' = Some([call |-> "build_graph_from_json", json |-> json, ok |-> built.ok])
    /\ UNCHANGED <<query, final_bindings, result, text, single, calls>>

\* node arrays of up to MaxNodes elements with the ids "1", "2" or none, whose
\* knows field is absent, a string, or an array of up to two entries naming
\* "1", "2", the unknown id "9", or not a string; and a node path without array
NextJson ==
    \E json \in {[kind |-> "object", elements |-> <<>>]}
              \cup { [kind |-> "array", elements |-> els] :
                       els \in UNION { [1..n ->
                           { [id |-> id, knows |-> rel] :
                               id \in {None, Some(<<49>>), Some(<<50>>)},
                               rel \in {[kind |-> "absent"]}
                                       \cup { [kind |-> "string", to |-> t] : t \in {<<49>>, <<57>>} }
                                       \cup { [kind |-> "array", entries |-> en] :
                                                en \in UNION { [1..m -> {None, Some(<<49>>), Some(<<50>>), Some(<<57>>)}] :
                                                                 m \in 0..2 } } }] :
                                       n \in 0..MaxNodes } } :
        LoadGraph(json)

SpecJson == Init /\ [][NextJson]_vars

\* ------------------------------------------------------------------------
\* AST (parser::ast), as built by src/src/parser/mod.rs
\* ------------------------------------------------------------------------
NodePattern(variable, labels) == [variable |-> variable, labels |-> labels]

RelationshipPattern(variable, rel_type, direction) ==
    [variable |-> variable, rel_type |-> rel_type, range |-> None,
     direction |-> direction]

ChainNode(node_pat) == [kind |-> "Node", node |-> node_pat]
ChainRel(rel_pat, node_pat) ==
    [kind |-> "Relationship", rel |-> rel_pat, node |-> node_pat]

PatternPart(chains) == [chains |-> chains]

PropertyOrVariable(variable, property) ==
    [variable |-> variable, property |-> property]

LitString(s) == [kind |-> "Literal", lit |-> "String", s |-> s]
LitNumber(n) == [kind |-> "Literal", lit |-> "Number", n |-> n]
TermPV(pv) == [kind |-> "PropertyOrVariable", pv |-> pv]

Comparison(left, operator, right) ==
    [kind |-> "Comparison", left |-> left, operator |-> operator,
     right |-> right]
And(exprs) == [kind |-> "And", exprs |-> exprs]
Or(exprs) == [kind |-> "Or", exprs |-> exprs]
Aggregate(func, variable, property) ==
    [kind |-> "Aggregate", func |-> func, variable |-> variable,
     property |-> property]

ReturnItem(expression, alias) == [expression |-> expression, alias |-> alias]

Query(patterns, where_clause, items) ==
    [match_clause |-> [patterns |-> patterns],
     where_clause |-> where_clause,
     return_clause |-> [items |-> items]]

\* ------------------------------------------------------------------------
\* Bindings (executor.rs: EntityId, Bindings)
\* ------------------------------------------------------------------------
NodeId(idx) == [kind |-> "Node", idx |-> idx]
RelId(from_idx, to_idx, rel) ==
    [kind |-> "Relationship", from_idx |-> from_idx, to_idx |-> to_idx,
     rel |-> rel]

EmptyBindings == [v \in {} |-> NodeId(0)]

\* HashMap::insert
Insert(bindings, key, entity) ==
    [v \in DOMAIN bindings \cup {key} |->
        IF v = key THEN entity ELSE bindings[v]]

\* HashMap::get(var) is Some(EntityId::Node(_))
BoundToNode(bindings, var) ==
    var \in DOMAIN bindings /\ bindings[var].kind = "Node"

\* ------------------------------------------------------------------------
\* Pattern matcher
\* ------------------------------------------------------------------------
\* LabelMatch as it would be if a node without a label matched every label list
LabelMatchUnlabelled(node_pat, node) ==
    \/ node_pat.labels = <<>>
    \/ node.label = None
    \/ \E k \in 1..Len(node_pat.labels) : node.label = Some(node_pat.labels[k])

\* label check shared by match_node_pattern and match_relationship_pattern
LabelMatch(node_pat, node) ==
    \/ node_pat.labels = <<>>
    \/ \E k \in 1..Len(node_pat.labels) : node.label = Some(node_pat.labels[k])

\* body of the outer loop of match_node_pattern for one binding
MatchNodeBinding(node_pat, g, bindings) ==
    LET var == node_pat.variable
        idxs == [k \in 1..Len(g.nodes) |-> k - 1]
        keep(i) ==
            /\ LabelMatch(node_pat, NodeAt(g, i))
            /\ \/ ~IsSome(var)
               \/ Unwrap(var) \notin DOMAIN bindings
               \/ bindings[Unwrap(var)] = NodeId(i)
        kept == SelectSeq(idxs, keep)
    IN  [k \in 1..Len(kept) |->
            IF IsSome(var) /\ Unwrap(var) \notin DOMAIN bindings
            THEN Insert(bindings, Unwrap(var), NodeId(kept[k]))
            ELSE bindings]

\* QueryExecutor::match_node_pattern
MatchNodePattern(node_pat, g, current_bindings) ==
    ConcatAll([k \in 1..Len(current_bindings) |->
                  MatchNodeBinding(node_pat, g, current_bindings[k])])

\* forward_adj.get(idx): (to, rel_type) of the edges leaving idx, edge order
ForwardAdj(g, idx) ==
    LET out(e) == e.from = idx
        es == SelectSeq(g.edges, out)
    IN  [k \in 1..Len(es) |-> [next_idx |-> es[k].to, rel |-> es[k].rel_type]]

\* backward_adj.get(idx): (from, rel_type) of the edges entering idx
BackwardAdj(g, idx) ==
    LET inc(e) == e.to = idx
        es == SelectSeq(g.edges, inc)
    IN  [k \in 1..Len(es) |-> [next_idx |-> es[k].from, rel |-> es[k].rel_type]]

\* Neighbors as it would be if an undirected pattern followed outgoing edges only
NeighborsForwardOnly(g, start_idx, direction) ==
    CASE direction = "Right" -> ForwardAdj(g, start_idx)
      [] direction = "Left"  -> BackwardAdj(g, start_idx)
      [] OTHER               -> ForwardAdj(g, start_idx)

\* the neighbors selected by rel_pat.direction
Neighbors(g, start_idx, direction) ==
    CASE direction = "Right" -> ForwardAdj(g, start_idx)
      [] direction = "Left"  -> BackwardAdj(g, start_idx)
      [] OTHER               -> ForwardAdj(g, start_idx) \o BackwardAdj(g, start_idx)

\* RelMatch as it would be if a hop range that excludes one hop matched no edge
RelMatchInRange(rel_pat, rel) ==
    /\ ~IsSome(rel_pat.rel_type) \/ rel = Unwrap(rel_pat.rel_type)
    /\ \/ ~IsSome(rel_pat.range)
       \/ ~IsSome(Unwrap(rel_pat.range).start)
       \/ Unwrap(Unwrap(rel_pat.range).start) <= 1

\* rel_match
RelMatch(rel_pat, rel) ==
    ~IsSome(rel_pat.rel_type) \/ rel = Unwrap(rel_pat.rel_type)

\* neighbors of the binding's start node that pass the type check
TypedNeighbors(start_node_var, rel_pat, g, bindings) ==
    IF BoundToNode(bindings, start_node_var)
    THEN LET typed(n) == RelMatch(rel_pat, n.rel)
         IN  SelectSeq(Neighbors(g, bindings[start_node_var].idx,
                                 rel_pat.direction), typed)
    ELSE <<>>

\* new_bindings after the relationship variable has been bound
BindRelVar(rel_pat, bindings, start_idx, n) ==
    IF IsSome(rel_pat.variable)
    THEN Insert(bindings, Unwrap(rel_pat.variable),
                RelId(start_idx, n.next_idx, n.rel))
    ELSE bindings

\* new_bindings after the end variable has been handled
BindEndVar(end_node_pat, bindings, new_bindings, n) ==
    IF IsSome(end_node_pat.variable)
       /\ ~BoundToNode(bindings, Unwrap(end_node_pat.variable))
    THEN Insert(new_bindings, Unwrap(end_node_pat.variable), NodeId(n.next_idx))
    ELSE new_bindings

\* MatchRelBinding as it would be if a bound end variable accepted any neighbor
MatchRelBindingAnyEnd(start_node_var, rel_pat, end_node_pat, g, bindings) ==
    LET ns == TypedNeighbors(start_node_var, rel_pat, g, bindings)
        keep(n) ==
            /\ n.next_idx < Len(g.nodes)
            /\ LabelMatch(end_node_pat, NodeAt(g, n.next_idx))
        kept == SelectSeq(ns, keep)
    IN  [k \in 1..Len(kept) |->
            BindEndVar(end_node_pat, bindings,
                       BindRelVar(rel_pat, bindings,
                                  bindings[start_node_var].idx, kept[k]),
                       kept[k])]

\* body of the outer loop of match_relationship_pattern for one binding
MatchRelBinding(start_node_var, rel_pat, end_node_pat, g, bindings) ==
    LET ns == TypedNeighbors(start_node_var, rel_pat, g, bindings)
        var == end_node_pat.variable
        keep(n) ==
            /\ n.next_idx < Len(g.nodes)
            /\ LabelMatch(end_node_pat, NodeAt(g, n.next_idx))
            /\ \/ ~IsSome(var)
               \/ ~BoundToNode(bindings, Unwrap(var))
               \/ bindings[Unwrap(var)].idx = n.next_idx
        kept == SelectSeq(ns, keep)
    IN  [k \in 1..Len(kept) |->
            BindEndVar(end_node_pat, bindings,
                       BindRelVar(rel_pat, bindings,
                                  bindings[start_node_var].idx, kept[k]),
                       kept[k])]

\* QueryExecutor::match_relationship_pattern
MatchRelationshipPattern(start_node_var, rel_pat, end_node_pat, g, current_bindings) ==
    ConcatAll([k \in 1..Len(current_bindings) |->
                  MatchRelBinding(start_node_var, rel_pat, end_node_pat, g,
                                  current_bindings[k])])

\* graph.nodes[next_idx] is reached with next_idx out of bounds: the index
\* expression panics and the call is aborted
RelStepPanics(start_node_var, rel_pat, g, current_bindings) ==
    \E k \in 1..Len(current_bindings) :
        LET ns == TypedNeighbors(start_node_var, rel_pat, g, current_bindings[k])
        IN  \E j \in 1..Len(ns) : ns[j].next_idx >= Len(g.nodes)

\* one iteration of the loop over pattern_part.chains in execute
ChainStep(chain, g, st) ==
    IF st.panicked THEN st
    ELSE IF chain.kind = "Node"
    THEN [bindings_list |-> MatchNodePattern(chain.node, g, st.bindings_list),
          last_node_variable |->
              IF IsSome(chain.node.variable) THEN chain.node.variable
              ELSE st.last_node_variable,
          panicked |-> FALSE]
    ELSE IF IsSome(st.last_node_variable)
    THEN IF RelStepPanics(Unwrap(st.last_node_variable), chain.rel, g,
                          st.bindings_list)
         THEN [st EXCEPT !.panicked = TRUE]
         ELSE [bindings_list |->
                   MatchRelationshipPattern(Unwrap(st.last_node_variable),
                                            chain.rel, chain.node, g,
                                            st.bindings_list),
               last_node_variable |->
                   IF IsSome(chain.node.variable) THEN chain.node.variable
                   ELSE st.last_node_variable,
               panicked |-> FALSE]
    ELSE st

RECURSIVE RunChains(_, _, _, _)
RunChains(chains, i, g, st) ==
    IF i > Len(chains) THEN st
    ELSE RunChains(chains, i + 1, g, ChainStep(chains[i], g, st))

\* the loop over query.match_clause.patterns in execute
RECURSIVE RunParts(_, _, _, _)
RunParts(patterns, i, g, st) ==
    IF i > Len(patterns) THEN st
    ELSE RunParts(patterns, i + 1, g,
                  RunChains(patterns[i].chains, 1, g,
                            [st EXCEPT !.last_node_variable = None]))

\* MatchPatterns as it would be if only the first pattern part were matched
MatchPatternsFirstPart(q, g) ==
    RunParts(<<q.match_clause.patterns[1]>>, 1, g,
             [bindings_list |-> <<EmptyBindings>>,
              last_node_variable |-> None,
              panicked |-> FALSE])

\* step 1 of execute: the bindings list after all pattern parts
MatchPatterns(q, g) ==
    RunParts(q.match_clause.patterns, 1, g,
             [bindings_list |-> <<EmptyBindings>>,
              last_node_variable |-> None,
              panicked |-> FALSE])

\* ------------------------------------------------------------------------
\* Expression evaluator
\* ------------------------------------------------------------------------
\* EvaluatePropertyOrVariable as it would be if every property of a
\* relationship resolved to its type
EvaluatePropertyOrVariableRelAny(pv, bindings, g) ==
    IF pv.variable \in DOMAIN bindings
    THEN LET entity == bindings[pv.variable] IN
         IF entity.kind = "Node"
         THEN IF IsSome(pv.property)
              THEN LET o == GetPropertyAsString(NodeAt(g, entity.idx),
                                                Unwrap(pv.property))
                   IN  IF IsSome(o) THEN Unwrap(o) ELSE NullStr
              ELSE NodeAt(g, entity.idx).id
         ELSE entity.rel
    ELSE NullStr

\* QueryExecutor::evaluate_property_or_variable
EvaluatePropertyOrVariable(pv, bindings, g) ==
    IF pv.variable \in DOMAIN bindings
    THEN LET entity == bindings[pv.variable] IN
         IF entity.kind = "Node"
         THEN IF IsSome(pv.property)
              THEN LET o == GetPropertyAsString(NodeAt(g, entity.idx),
                                                Unwrap(pv.property))
                   IN  IF IsSome(o) THEN Unwrap(o) ELSE NullStr
              ELSE NodeAt(g, entity.idx).id
         ELSE IF IsSome(pv.property)
              THEN IF Unwrap(pv.property) = "type" THEN entity.rel ELSE NullStr
              ELSE entity.rel
    ELSE NullStr

\* the right-hand side of a comparison as a string
EvaluateTerm(term, bindings, g) ==
    IF term.kind = "Literal"
    THEN IF term.lit = "String" THEN term.s ELSE IntToString(term.n)
    ELSE EvaluatePropertyOrVariable(term.pv, bindings, g)

\* ApplyOperator as it would be if the order put shorter strings first, which
\* on strings of digits is the numeric order
ApplyOperatorShortlex(op, left_val, right_val) ==
    LET cmp == IF Len(left_val) < Len(right_val) THEN -1
               ELSE IF Len(left_val) > Len(right_val) THEN 1
               ELSE StrCmp(left_val, right_val)
    IN  CASE op = "Eq"       -> left_val = right_val
          [] op = "NotEq"    -> left_val # right_val
          [] op = "Contains" -> StrContains(left_val, right_val)
          [] op = "Lt"       -> cmp < 0
          [] op = "Gt"       -> cmp > 0
          [] op = "LtEq"     -> cmp <= 0
          [] op = "GtEq"     -> cmp >= 0

\* the match on ComparisonOperator in evaluate_expression
ApplyOperator(op, left_val, right_val) ==
    CASE op = "Eq"       -> left_val = right_val
      [] op = "NotEq"    -> left_val # right_val
      [] op = "Contains" -> StrContains(left_val, right_val)
      [] op = "Lt"       -> StrCmp(left_val, right_val) < 0
      [] op = "Gt"       -> StrCmp(left_val, right_val) > 0
      [] op = "LtEq"     -> StrCmp(left_val, right_val) <= 0
      [] op = "GtEq"     -> StrCmp(left_val, right_val) >= 0

\* Truthy as it would be if only the empty string were false
TruthyNonEmpty(left_val) == left_val # <<>>

\* truthiness of a bare reference
Truthy(left_val) == left_val # <<>> /\ left_val # NullStr

\* the Comparison arm of evaluate_expression
EvaluateComparison(comp, bindings, g) ==
    LET left_val == EvaluatePropertyOrVariable(comp.left, bindings, g) IN
    IF IsSome(comp.right)
    THEN IF IsSome(comp.operator)
         THEN ApplyOperator(Unwrap(comp.operator), left_val,
                            EvaluateTerm(Unwrap(comp.right), bindings, g))
         ELSE Truthy(left_val)
    ELSE Truthy(left_val)

\* QueryExecutor::evaluate_expression
RECURSIVE EvaluateExpression(_, _, _)
EvaluateExpression(expr, bindings, g) ==
    CASE expr.kind = "And" ->
            \A k \in 1..Len(expr.exprs) :
                EvaluateExpression(expr.exprs[k], bindings, g)
      [] expr.kind = "Or" ->
            \E k \in 1..Len(expr.exprs) :
                EvaluateExpression(expr.exprs[k], bindings, g)
      [] expr.kind = "Comparison" -> EvaluateComparison(expr, bindings, g)
      [] OTHER -> TRUE

\* step 2 of execute: bindings_list.retain(...)
FilterWhere(q, g, bindings_list) ==
    IF IsSome(q.where_clause)
    THEN LET keep(b) == EvaluateExpression(Unwrap(q.where_clause).expression, b, g)
         IN  SelectSeq(bindings_list, keep)
    ELSE bindings_list

\* ------------------------------------------------------------------------
\* Aggregate evaluator (functions/aggregate.rs)
\* ------------------------------------------------------------------------
\* the EvalContext built from one binding: node variables only
ToContext(bindings) ==
    [v \in {x \in DOMAIN bindings : bindings[x].kind = "Node"} |->
        bindings[v].idx]

\* Count as it would be if equal contexts were counted once
CountDistinct(contexts) ==
    JNumber(Cardinality({ contexts[k] : k \in 1..Len(contexts) }))

\* AggregateEvaluator::count
Count(contexts) == JNumber(Len(contexts))

\* what one context adds to the running sum
SumTerm(agg, context, g) ==
    IF agg.variable \in DOMAIN context
    THEN LET value == IF IsSome(agg.property)
                      THEN GetPropertyAsI64(NodeAt(g, context[agg.variable]),
                                            Unwrap(agg.property))
                      ELSE None
         IN  IF IsSome(value) THEN Unwrap(value) ELSE 0
    ELSE 0

\* the loop of AggregateEvaluator::sum for values whose totals stay inside
\* i64 (the property values of NodePool and EvalNodePool); SumI64 below is the
\* same loop over the whole width
RECURSIVE SumLoop(_, _, _, _, _)
SumLoop(agg, contexts, g, i, sum) ==
    IF i > Len(contexts) THEN sum
    ELSE SumLoop(agg, contexts, g, i + 1, sum + SumTerm(agg, contexts[i], g))

\* AggregateEvaluator::sum
Sum(agg, contexts, g) == JNumber(SumLoop(agg, contexts, g, 1, 0))

\* AggregateEvaluator::evaluate
EvaluateAggregate(agg, contexts, g) ==
    IF agg.func = "Count" THEN Count(contexts) ELSE Sum(agg, contexts, g)

\* AggregateColumnName as it would be if the function name were in lower case
AggregateColumnNameLower(agg) ==
    LET func_name == IF agg.func = "Count" THEN "count" ELSE "sum" IN
    IF IsSome(agg.property)
    THEN func_name \o "(" \o agg.variable \o "." \o Unwrap(agg.property) \o ")"
    ELSE func_name \o "(" \o agg.variable \o ")"

\* AggregateEvaluator::column_name
AggregateColumnName(agg) ==
    LET func_name == IF agg.func = "Count" THEN "COUNT" ELSE "SUM" IN
    IF IsSome(agg.property)
    THEN func_name \o "(" \o agg.variable \o "." \o Unwrap(agg.property) \o ")"
    ELSE func_name \o "(" \o agg.variable \o ")"

\* ------------------------------------------------------------------------
\* Projection
\* ------------------------------------------------------------------------
\* QueryExecutor::expression_column_name
ExpressionColumnName(expr) ==
    CASE expr.kind = "Comparison" /\ ~IsSome(expr.operator) /\ ~IsSome(expr.right) ->
            IF IsSome(expr.left.property)
            THEN expr.left.variable \o "." \o Unwrap(expr.left.property)
            ELSE expr.left.variable
      [] expr.kind = "Aggregate" ->
            LET func_name == IF expr.func = "Count" THEN "COUNT" ELSE "SUM" IN
            IF IsSome(expr.property)
            THEN func_name \o "(" \o expr.variable \o "." \o Unwrap(expr.property) \o ")"
            ELSE func_name \o "(" \o expr.variable \o ")"
      [] OTHER -> "expression"

\* str::parse::<i64>: Some(n) when the text is an optional sign followed by
\* one or more decimal digits
IsDigit(c) == c >= 48 /\ c <= 57

RECURSIVE DigitsValue(_, _)
DigitsValue(s, acc) ==
    IF s = <<>> THEN acc ELSE DigitsValue(Tail(s), acc * 10 + (Head(s) - 48))

\* the digits of i64::MAX, 9223372036854775807
I64MaxDigits == <<57, 50, 50, 51, 51, 55, 50, 48, 51, 54, 56, 53, 52, 55, 55, 53, 56, 48, 55>>

\* the digit string, leading zeros dropped, is a magnitude above i64::MAX
\* (above i64::MAX + 1 for a negative number): the parse overflows
RECURSIVE StripZeros(_)
StripZeros(s) == IF s # <<>> /\ Head(s) = 48 THEN StripZeros(Tail(s)) ELSE s

OverflowsI64(body, negative) ==
    LET sig == StripZeros(body) IN
    \/ Len(sig) > 19
    \/ /\ Len(sig) = 19
       /\ StrCmp(sig, I64MaxDigits) > 0
       /\ ~(negative /\ sig = [I64MaxDigits EXCEPT ![19] = 56])

\* ParseI64 as it would be if a sign were not accepted
ParseI64Unsigned(s) ==
    IF s # <<>> /\ (\A k \in 1..Len(s) : IsDigit(s[k])) /\ ~OverflowsI64(s, FALSE)
    THEN Some(DigitsValue(s, 0))
    ELSE None

ParseI64(s) ==
    LET body == IF s # <<>> /\ (Head(s) = 45 \/ Head(s) = 43) THEN Tail(s) ELSE s IN
    IF body # <<>> /\ (\A k \in 1..Len(body) : IsDigit(body[k]))
       /\ ~OverflowsI64(body, Head(s) = 45)
    THEN Some(IF Head(s) = 45 THEN 0 - DigitsValue(body, 0)
              ELSE DigitsValue(body, 0))
    ELSE None

\* QueryExecutor::evaluate_expression_value
EvaluateExpressionValue(expr, bindings, g) ==
    IF expr.kind = "Comparison"
    THEN IF ~IsSome(expr.operator) /\ ~IsSome(expr.right)
         THEN LET val == EvaluatePropertyOrVariable(expr.left, bindings, g)
                  n == ParseI64(val)
              IN  IF IsSome(n) THEN JNumber(Unwrap(n)) ELSE JString(val)
         ELSE JBool(EvaluateExpression(expr, bindings, g))
    ELSE JNull

\* results of execute
Ok(columns, rows) == [tag |-> "Ok", columns |-> columns, rows |-> rows]
ExecutionError == [tag |-> "ExecutionError", columns |-> <<>>, rows |-> <<>>]
Panic == [tag |-> "Panic", columns |-> <<>>, rows |-> <<>>]

\* serde_json::Map::insert
MapInsert(map, key, value) ==
    [c \in DOMAIN map \cup {key} |-> IF c = key THEN value ELSE map[c]]

EmptyMap == [c \in {} |-> JNull]

\* column name of a RETURN item in execute_aggregate_return
AggregateItemColumn(item) ==
    IF IsSome(item.alias) THEN Unwrap(item.alias)
    ELSE IF item.expression.kind = "Aggregate"
         THEN AggregateColumnName(item.expression)
         ELSE ExpressionColumnName(item.expression)

\* the loop over return_clause.items in execute_aggregate_return; contexts are
\* the EvalContexts of the bindings, which the loop builds anew for every
\* aggregate item
RECURSIVE AggregateLoop(_, _, _, _, _, _)
AggregateLoop(items, i, contexts, g, columns, values) ==
    IF i > Len(items) THEN Ok(columns, <<values>>)
    ELSE LET item == items[i]
             column_name == AggregateItemColumn(item)
         IN  IF item.expression.kind = "Aggregate"
             THEN LET value == EvaluateAggregate(item.expression, contexts, g)
                  IN  AggregateLoop(items, i + 1, contexts, g,
                                    Append(columns, column_name),
                                    MapInsert(values, column_name, value))
             ELSE ExecutionError

\* execute_aggregate_return as it would be if an empty bindings list gave no row
ExecuteAggregateReturnNoRow(return_clause, bindings_list, g) ==
    LET r == AggregateLoop(return_clause.items, 1,
                           [k \in 1..Len(bindings_list) |-> ToContext(bindings_list[k])],
                           g, <<>>, EmptyMap)
    IN  IF r.tag = "Ok" /\ bindings_list = <<>> THEN Ok(r.columns, <<>>) ELSE r

\* QueryExecutor::execute_aggregate_return
ExecuteAggregateReturn(return_clause, bindings_list, g) ==
    AggregateLoop(return_clause.items, 1,
                  [k \in 1..Len(bindings_list) |-> ToContext(bindings_list[k])],
                  g, <<>>, EmptyMap)

\* column name of a RETURN item in execute_normal_return
NormalItemColumn(item) ==
    IF IsSome(item.alias) THEN Unwrap(item.alias)
    ELSE ExpressionColumnName(item.expression)

\* the inner loop of execute_normal_return: one row
RECURSIVE RowLoop(_, _, _, _, _, _)
RowLoop(items, i, columns, bindings, g, row) ==
    IF i > Len(items) THEN row
    ELSE RowLoop(items, i + 1, columns, bindings, g,
                 MapInsert(row, columns[i],
                           EvaluateExpressionValue(items[i].expression,
                                                   bindings, g)))

\* execute_normal_return as it would be if equal rows were returned once
ExecuteNormalReturnDistinct(return_clause, bindings_list, g) ==
    LET items == return_clause.items
        columns == [i \in 1..Len(items) |-> NormalItemColumn(items[i])]
        rows == [k \in 1..Len(bindings_list) |->
                    RowLoop(items, 1, columns, bindings_list[k], g, EmptyMap)]
        first(k) == \A j \in 1..(k - 1) : rows[j] # rows[k]
        kept == SelectSeq([k \in 1..Len(rows) |-> k], first)
    IN  Ok(columns, [k \in 1..Len(kept) |-> rows[kept[k]]])

\* QueryExecutor::execute_normal_return
ExecuteNormalReturn(return_clause, bindings_list, g) ==
    LET items == return_clause.items
        columns == [i \in 1..Len(items) |-> NormalItemColumn(items[i])]
    IN  Ok(columns,
           [k \in 1..Len(bindings_list) |->
               RowLoop(items, 1, columns, bindings_list[k], g, EmptyMap)])

\* has_aggregate as it would be if only the first RETURN item were inspected
HasAggregateFirst(q) ==
    q.return_clause.items[1].expression.kind = "Aggregate"

\* has_aggregate in execute
HasAggregate(q) ==
    \E i \in 1..Len(q.return_clause.items) :
        q.return_clause.items[i].expression.kind = "Aggregate"

\* step 3 of execute: project with RETURN
Project(q, bindings_list, g) ==
    IF HasAggregate(q)
    THEN ExecuteAggregateReturn(q.return_clause, bindings_list, g)
    ELSE ExecuteNormalReturn(q.return_clause, bindings_list, g)

\* QueryExecutor::execute: the bindings_list it ends with and what it returns
ExecuteQuery(q, g) ==
    LET matched == MatchPatterns(q, g)
        filtered == FilterWhere(q, g, matched.bindings_list)
    IN  IF matched.panicked
        THEN [bindings_list |-> None, result |-> Panic]
        ELSE [bindings_list |-> Some(filtered),
              result |-> Project(q, filtered, g)]

\* ------------------------------------------------------------------------
\* Queries the model executes: ASTs as parse_query builds them
\* ------------------------------------------------------------------------
Str9 == <<57>>
Str1 == <<49>>

\* v and v.p as RETURN items or WHERE operands
Ref(variable) == Comparison(PropertyOrVariable(variable, None), None, None)
Prop(variable, property) ==
    Comparison(PropertyOrVariable(variable, Some(property)), None, None)
Item(expression) == ReturnItem(expression, None)

\* (v), (v:L), ()
AnyNode(variable) == NodePattern(Some(variable), <<>>)
OneNode(variable) == PatternPart(<<ChainNode(AnyNode(variable))>>)
Hop(a, rel_pat, b_pat) ==
    PatternPart(<<ChainNode(AnyNode(a)), ChainRel(rel_pat, b_pat)>>)
AnyRel(direction) == RelationshipPattern(None, None, direction)

\* MATCH (n) WHERE n.p <op> <term> RETURN n.id
WhereQuery(p, op, term) ==
    Query(<<OneNode("n")>>,
          Some([expression |->
                  Comparison(PropertyOrVariable("n", Some(p)), Some(op), Some(term))]),
          <<Item(Prop("n", "id"))>>)

\* patterns that name a variable more than once
\* MATCH (u)-[]->(v) RETURN COUNT(..), SUM(..) over different arguments
\* MATCH (a)-[:T]->(b:L) and the other two directions
\* MATCH (n:L) RETURN <plain items>
\* RETURN clauses that mix aggregate and non-aggregate items
\* MATCH (n:L1:..:Lk) RETURN <aggregates>
Queries ==
    ({ Query(<<PatternPart(<<ChainNode(NodePattern(Some("n"), ls))>>)>>, None, items) : ls \in ({<<>>, <<"admin">>, <<"user">>, <<"admin", "user">>, <<"ghost">>}), items \in { <<Item(Aggregate("Count", "n", None))>>, <<Item(Aggregate("Sum", "n", Some("age")))>>, <<Item(Aggregate("Count", "n", None)), Item(Aggregate("Sum", "n", Some("age"))), Item(Aggregate("Sum", "n", Some("name")))>> } }) \cup ({ Query(<<PatternPart(<<ChainNode(NodePattern(Some("n"), ls))>>)>>, None, items) : ls \in {<<>>, <<"ghost">>}, items \in { <<Item(Prop("n", "id")), Item(Aggregate("Count", "n", None))>>, <<Item(Aggregate("Count", "n", None)), Item(Prop("n", "id"))>>, <<Item(Aggregate("Sum", "n", Some("age"))), Item(Ref("n")), Item(Aggregate("Count", "n", None))>>, <<ReturnItem(Aggregate("Count", "n", None), Some("c")), ReturnItem(Prop("n", "age"), Some("c"))>> } }) \cup ({ Query(<<PatternPart(<<ChainNode(NodePattern(Some("n"), ls))>>)>>, None, items) : ls \in {<<>>, <<"admin">>, <<"ghost">>}, items \in { <<Item(Prop("n", "id"))>>, <<Item(Prop("n", "age")), Item(Ref("n"))>>, <<ReturnItem(Prop("n", "name"), Some("x")), Item(Prop("m", "id")), Item(Prop("n", "label"))>> } }) \cup ({ Query(<<Hop("a", RelationshipPattern(None, t, d), NodePattern(Some("b"), ls))>>, None, <<Item(Ref("a")), Item(Ref("b"))>>) : t \in {None, Some(Knows)}, d \in ({"Right", "Left", "Both"}), ls \in {<<>>, <<"admin">>} })
    \cup ({ Query(<<Hop("u", RelationshipPattern(rv, None, d), AnyNode("v"))>>, None, <<Item(agg)>>) : rv \in {Some("r")}, d \in {"Right", "Both"}, agg \in { Aggregate("Count", "u", None), Aggregate("Count", "v", Some("age")), Aggregate("Count", "x", None), Aggregate("Sum", "v", Some("age")), Aggregate("Sum", "r", Some("age")), Aggregate("Sum", "v", None), Aggregate("Sum", "x", Some("age")) } } \cup { Query(<<Hop("u", AnyRel("Right"), AnyNode("v"))>>, None, <<Item(Aggregate("Count", "u", None))>>) }) \cup ({ Query(ps, None, <<Item(Ref("a")), Item(Ref("b"))>>) : ps \in { <<Hop("a", AnyRel("Right"), AnyNode("b")), Hop("b", AnyRel("Right"), AnyNode("a"))>>, <<OneNode("a"), OneNode("b"), OneNode("a")>>, <<Hop("a", AnyRel("Right"), AnyNode("a"))>>, <<PatternPart(<<ChainNode(AnyNode("a")), ChainRel(AnyRel("Right"), AnyNode("b")), ChainRel(AnyRel("Right"), AnyNode("a"))>>)>>, <<Hop("a", AnyRel("Both"), AnyNode("b")), PatternPart(<<ChainNode(NodePattern(Some("b"), <<"admin">>))>>)>>, <<OneNode("a"), Hop("b", AnyRel("Left"), AnyNode("a"))>> } }) \cup ({ WhereQuery("age", op, term) : op \in ({"Eq", "NotEq", "Contains", "Lt", "Gt", "LtEq", "GtEq"}), term \in {LitString(Str9), LitNumber(2)} } \cup { WhereQuery("name", op, LitString((<<98>>))) : op \in {"Contains", "Eq", "Lt"} } \cup { WhereQuery("age", op, TermPV(PropertyOrVariable("n", None))) : op \in {"Gt", "NotEq"} })

\* ------------------------------------------------------------------------
\* Actions and specifications
\* ------------------------------------------------------------------------
\* QueryExecutor::execute on the current graph; the graph is only read.  Calls
\* are synchronous: one query is in hand at a time.
Execute(q) ==
    /\ query = None
    /\ query' = Some(q)
    /\ LET call == ExecuteQuery(q, Graph) IN
           /\ final_bindings' = call.bindings_list
           /\ result' = Some(call.result)
    /\ text' = None
    /\ single' = None
    /\ UNCHANGED <<nodes, edges, id_map, calls, api>>

\* the caller drops the parsed query and the QueryResult of the last call
Release ==
    /\ query # None \/ text # None
    /\ NoCall
    /\ UNCHANGED <<nodes, edges, id_map, calls, api>>

Next ==
    \/ \E node \in NodePool : AddNode(node)
    \/ \E from \in 0..(MaxNodes - 1), to \in 0..(MaxNodes - 1), t \in RelTypes :
           AddEdge(from, to, t)
    \/ \E q \in Queries : Execute(q)
    \/ Release

Spec == Init /\ [][Next]_vars

\* The same program driven through the whole of the public API: Graph::add_edge
\* accepts any pair of indices
NextApi ==
    \/ Next
    \/ \E from \in 0..(MaxNodes - 1), to \in 0..(MaxNodes - 1), t \in RelTypes :
           AddEdgeUnchecked(from, to, t)

SpecApi == Init /\ [][NextApi]_vars

\* ------------------------------------------------------------------------
\* Evaluation of references: nodes whose property bags hold every kind of
\* value, and the queries that resolve, test and project them
\* ------------------------------------------------------------------------
StrB2 == <<98, 50>>
\* "12345678901234567890", above i64::MAX
StrBig == <<49, 50, 51, 52, 53, 54, 55, 56, 57, 48, 49, 50, 51, 52, 53, 54, 55, 56, 57, 48>>

\* the references the queries resolve
NodeRefs(v) ==
    {PropertyOrVariable(v, None)} \cup {PropertyOrVariable(v, Some(k)) : k \in ({"id", "age", "flag", "nul", "empty", "ntext", "tags", "neg", "big", "name", "pad", "gone"})}
RelRefs(v) ==
    {PropertyOrVariable(v, None), PropertyOrVariable(v, Some("type")),
     PropertyOrVariable(v, Some("since")), PropertyOrVariable(v, Some("id"))}
EvalRefs == NodeRefs("n") \cup RelRefs("r") \cup NodeRefs("x")

BareItem(pv) == Item(Comparison(pv, None, None))
BareWhere(pv) == Some([expression |-> Comparison(pv, None, None)])
RelHop == Hop("n", RelationshipPattern(Some("r"), None, "Right"), AnyNode("m"))

\* RETURN items of every shape parse_expression builds, with and without alias
AgeAbove9 ==
    Comparison(PropertyOrVariable("n", Some("age")), Some("Gt"), Some(LitString(Str9)))
NormalShapes ==
    <<Item(Prop("n", "age")), Item(Ref("n")), ReturnItem(Prop("n", "age"), Some("a")),
      Item(AgeAbove9), Item(And(<<Ref("n"), AgeAbove9>>)),
      ReturnItem(Or(<<AgeAbove9, Ref("x")>>), Some("e"))>>
AggregateShapes ==
    <<Item(Aggregate("Count", "n", None)), Item(Aggregate("Sum", "n", Some("age"))),
      ReturnItem(Aggregate("Count", "n", Some("age")), Some("c")),
      Item(Aggregate("Sum", "n", None))>>

\* GetSingleValue as it would be if the number of columns were not looked at
GetSingleValueFirstColumn(res) ==
    IF Len(res.rows) = 1 /\ Len(res.columns) >= 1
    THEN IF res.columns[1] \in DOMAIN res.rows[1]
         THEN Some(res.rows[1][res.columns[1]]) ELSE None
    ELSE None

\* QueryResult::get_single_value
GetSingleValue(res) ==
    IF Len(res.rows) = 1 /\ Len(res.columns) = 1
    THEN IF res.columns[1] \in DOMAIN res.rows[1]
         THEN Some(res.rows[1][res.columns[1]]) ELSE None
    ELSE None

\* the caller asks the QueryResult of the last call for its single value
CallGetSingleValue ==
    /\ result # None
    /\ Unwrap(result).tag = "Ok"
    /\ single = None
    /\ single' = Some(GetSingleValue(Unwrap(result)))
    /\ UNCHANGED <<nodes, edges, id_map, query, final_bindings, result, text, calls, api>>

\* MATCH (n:L) RETURN <one aggregate>
\* MATCH .. WHERE <reference> RETURN ..
\* MATCH .. RETURN <reference>, <reference>
NextEval ==
    \/ \E node \in ({ Node(Str1, Some("admin"), [k \in {"id", "age", "flag", "nul", "empty", "ntext", "tags", "neg", "big"} |-> CASE k = "id" -> JString(Str1) [] k = "age" -> JNumber(30) [] k = "flag" -> JBool(FALSE) [] k = "nul" -> JNull [] k = "empty" -> JString(<<>>) [] k = "ntext" -> JString(NullStr) [] k = "tags" -> ([t |-> "Array"]) [] k = "neg" -> JString((<<45, 53>>)) [] OTHER -> JString(StrBig)]), Node(StrB2, None, [k \in {"id", "age", "flag", "name", "pad"} |-> CASE k = "id" -> JString(StrB2) [] k = "age" -> JNumber(0 - 3) [] k = "flag" -> JBool(TRUE) [] k = "name" -> JString((<<43, 55>>)) [] OTHER -> JString((<<48, 48, 55>>))]) }) : AddNode(node)
    \/ \E from \in 0..(MaxNodes - 1), to \in 0..(MaxNodes - 1), t \in RelTypes :
           AddEdge(from, to, t)
    \/ \E q \in (({ Query(<<OneNode("n")>>, None, <<BareItem(pv), BareItem(PropertyOrVariable("n", Some("id")))>>) : pv \in NodeRefs("n") \cup {PropertyOrVariable("x", None), PropertyOrVariable("x", Some("age"))} } \cup { Query(<<RelHop>>, None, <<BareItem(pv), BareItem(PropertyOrVariable("m", None))>>) : pv \in RelRefs("r") }) \cup ({ Query(<<OneNode("n")>>, BareWhere(pv), <<BareItem(PropertyOrVariable("n", None))>>) : pv \in NodeRefs("n") \cup {PropertyOrVariable("x", None), PropertyOrVariable("x", Some("age"))} } \cup { Query(<<RelHop>>, BareWhere(pv), <<BareItem(PropertyOrVariable("n", None))>>) : pv \in RelRefs("r") }) \cup ({ Query(<<OneNode("n")>>, None, items) : items \in {NormalShapes, AggregateShapes} }) \cup ({ Query(<<PatternPart(<<ChainNode(NodePattern(Some("n"), ls))>>)>>, None, <<item>>) : ls \in {<<>>, <<"admin">>}, item \in {Item(Aggregate("Count", "n", None)), ReturnItem(Aggregate("Sum", "n", Some("age")), Some("total"))} })) : Execute(q)
    \/ CallGetSingleValue
    \/ Release

SpecEval == Init /\ [][NextEval]_vars

\* ------------------------------------------------------------------------
\* Query texts: engine::execute(query: &str, graph) parses, then executes.
\* A text is held as the pairs the grammar cuts it into; an aggregate call
\* carries the function name as written
\* ------------------------------------------------------------------------
AggregateCallPair(func_str, variable, property) ==
    [func_str |-> func_str, variable |-> variable, property |-> property]

QueryText(patterns, item_pairs) == [patterns |-> patterns, item_pairs |-> item_pairs]

\* the pair of a reference v or v.p
ReferencePair(variable, property) == [variable |-> variable, property |-> property]

\* ToUppercase as it would be if the name were compared as written
ToUppercaseAsWritten(str) == str

\* str::to_uppercase on ASCII text
ToUppercase(str) ==
    [k \in 1..Len(str) |-> IF str[k] >= 97 /\ str[k] <= 122 THEN str[k] - 32 ELSE str[k]]

ParseOk(value) == [ok |-> TRUE, value |-> value]
ParseErr == [ok |-> FALSE, value |-> None]

\* parse_aggregate_call
ParseAggregateCall(pair) ==
    LET func_str == ToUppercase(pair.func_str) IN
    CASE func_str = (<<67, 79, 85, 78, 84>>) -> ParseOk(Aggregate("Count", pair.variable, pair.property))
      [] func_str = (<<83, 85, 77>>)   -> ParseOk(Aggregate("Sum", pair.variable, pair.property))
      [] OTHER               -> ParseErr

\* parse_return_item, through parse_expression and parse_comparison_expression:
\* the pair of an item without alias is an aggregate call or a reference v, v.p
ParseReturnItem(pair) ==
    IF "func_str" \in DOMAIN pair
    THEN LET expression == ParseAggregateCall(pair) IN
         IF expression.ok THEN ParseOk(ReturnItem(expression.value, None)) ELSE ParseErr
    ELSE ParseOk(ReturnItem(Comparison(PropertyOrVariable(pair.variable, pair.property),
                                       None, None), None))

\* parse_return_clause: the items in order, the first error ends the parse
ParseReturnClause(item_pairs) ==
    IF \E i \in 1..Len(item_pairs) : ~ParseReturnItem(item_pairs[i]).ok
    THEN ParseErr
    ELSE ParseOk([i \in 1..Len(item_pairs) |-> ParseReturnItem(item_pairs[i]).value])

\* parse_query
ParseQuery(t) ==
    LET items == ParseReturnClause(t.item_pairs) IN
    IF items.ok THEN ParseOk(Query(t.patterns, None, items.value)) ELSE ParseErr

\* engine::execute
EngineExecute(t, g) ==
    LET ast_query == ParseQuery(t) IN
    IF ast_query.ok
    THEN LET call == ExecuteQuery(ast_query.value, g) IN
         [query |-> Some(ast_query.value), bindings_list |-> call.bindings_list,
          result |-> call.result]
    ELSE [query |-> None, bindings_list |-> None, result |-> ([tag |-> "ParseError", columns |-> <<>>, rows |-> <<>>])]

\* a word in every mix of upper and lower case; word is given in lower case
CaseVariants(word) ==
    { [k \in 1..Len(word) |-> IF k \in up THEN word[k] - 32 ELSE word[k]] :
        up \in SUBSET (1..Len(word)) }

ExecuteText(t) ==
    /\ query = None
    /\ text = None
    /\ text' = Some(t)
    /\ LET call == EngineExecute(t, Graph) IN
           /\ query' = call.query
           /\ final_bindings' = call.bindings_list
           /\ result' = Some(call.result)
    /\ single' = None
    /\ UNCHANGED <<nodes, edges, id_map, calls, api>>

\* count, sum, and names that are neither: avg, min, su, sumx
\* MATCH (n) RETURN f(n), MATCH (n) RETURN f(n.age), MATCH (n) RETURN COUNT(n), f(n.age)
NextParse ==
    \/ \E node \in NodePool : AddNode(node)
    \/ \E t \in ({ QueryText(<<OneNode("n")>>, <<AggregateCallPair(f, "n", p)>>) : f \in (CaseVariants(<<99, 111, 117, 110, 116>>) \cup CaseVariants(<<115, 117, 109>>) \cup CaseVariants(<<97, 118, 103>>) \cup CaseVariants(<<109, 105, 110>>) \cup CaseVariants(<<115, 117>>) \cup CaseVariants(<<115, 117, 109, 120>>)), p \in {None, Some("age")} } \cup { QueryText(<<OneNode("n")>>, <<AggregateCallPair((<<67, 79, 85, 78, 84>>), "n", None), AggregateCallPair(f, "n", Some("age"))>>) : f \in CaseVariants(<<115, 117, 109>>) \cup CaseVariants(<<97, 118, 103>>) }) : ExecuteText(t)
    \/ Release

SpecParse == Init /\ [][NextParse]_vars

\* ------------------------------------------------------------------------
\* Chains with more than one relationship, or without a first variable
\* ------------------------------------------------------------------------
NoName(labels) == NodePattern(None, labels)

\* (a)-[]->(mid)-[]->(c), mid a node pattern with or without a variable
TwoHop(a, mid, c) ==
    PatternPart(<<ChainNode(AnyNode(a)), ChainRel(AnyRel("Right"), mid),
                  ChainRel(AnyRel("Right"), AnyNode(c))>>)

\* ()-[:T]->(b), ()-[]->(b)
HeadlessHop(rel_type, b) ==
    PatternPart(<<ChainNode(NoName(<<>>)),
                  ChainRel(RelationshipPattern(None, rel_type, "Right"), AnyNode(b))>>)

\* the chain queries, and two RETURN clauses whose items share a column name:
\* RETURN COUNT(n), COUNT(n) and RETURN n.id AS x, n.age AS x
NextChain ==
    \/ \E node \in NodePool : AddNode(node)
    \/ \E from, to \in 0..(MaxNodes - 1), rel_type \in RelTypes : AddEdge(from, to, rel_type)
    \/ \E q \in (({ Query(<<TwoHop("a", mid, "c")>>, None, <<Item(Ref("a")), Item(Ref("c"))>>) : mid \in {NoName(<<>>), AnyNode("b")} }) \cup ({ Query(<<HeadlessHop(t, "b")>>, None, <<Item(Ref("b"))>>) : t \in {None} \cup {Some(r) : r \in RelTypes} }))
                \cup { Query(<<OneNode("n")>>, None, items) :
                         items \in { <<Item(Aggregate("Count", "n", None)), Item(Aggregate("Count", "n", None))>>,
                                     <<ReturnItem(Prop("n", "id"), Some("x")), ReturnItem(Prop("n", "age"), Some("x"))>> } } : Execute(q)
    \/ Release

SpecChain == Init /\ [][NextChain]_vars

\* ------------------------------------------------------------------------
\* WHERE texts: comparisons joined by AND and OR, written without brackets
\* ------------------------------------------------------------------------
\* n.id = "1", n.age < "9", n.name
WhereComp(name) ==
    CASE name = "id1"  -> Comparison(PropertyOrVariable("n", Some("id")), Some("Eq"), Some(LitString(Str1)))
      [] name = "age9" -> Comparison(PropertyOrVariable("n", Some("age")), Some("Lt"), Some(LitString(Str9)))
      [] name = "name" -> Prop("n", "name")

\* or_expression := and_expression ('OR' and_expression)*,
\* and_expression := comparison ('AND' comparison)*: the comparisons of the
\* text, cut at every OR
OrExpression(w) ==
    LET n == Len(w.comps)
        first(i) == i = 1 \/ w.ops[i - 1] = "OR"
        starts == SelectSeq([i \in 1..n |-> i], first)
    IN  [k \in 1..Len(starts) |->
            SubSeq(w.comps, starts[k],
                   IF k < Len(starts) THEN starts[k + 1] - 1 ELSE n)]

\* ParseExpression as it would be if every comparison were an OR part
ParseExpressionFlat(or_expr) ==
    LET or_parts == ConcatAll(or_expr) IN
    IF Len(or_parts) = 1 THEN or_parts[1] ELSE Or(or_parts)

\* parse_expression
ParseExpression(or_expr) ==
    LET or_parts == [k \in 1..Len(or_expr) |->
                        IF Len(or_expr[k]) = 1 THEN or_expr[k][1] ELSE And(or_expr[k])]
    IN  IF Len(or_parts) = 1 THEN or_parts[1] ELSE Or(or_parts)

\* execute("MATCH (n) WHERE <w> RETURN n.id", graph)
ExecuteWhere(w) ==
    /\ query = None
    /\ text = None
    /\ text' = Some(w)
    /\ LET q == Query(<<OneNode("n")>>,
                      Some([expression |-> ParseExpression(OrExpression(w))]),
                      <<Item(Prop("n", "id"))>>)
           call == ExecuteQuery(q, Graph)
       IN  /\ query' = Some(q)
           /\ final_bindings' = call.bindings_list
           /\ result' = Some(call.result)
    /\ single' = None
    /\ UNCHANGED <<nodes, edges, id_map, calls, api>>

NextWhere ==
    \/ \E node \in NodePool : AddNode(node)
    \/ \E n \in 1..3 :
         \E names \in [1..n -> {"id1", "age9", "name"}], ops \in [1..(n - 1) -> {"AND", "OR"}] :
             ExecuteWhere([comps |-> [i \in 1..n |-> WhereComp(names[i])], ops |-> ops])
    \/ Release

SpecWhere == Init /\ [][NextWhere]_vars

\* ------------------------------------------------------------------------
\* SUM over the whole of i64. An i64 is held as its four 16-bit limbs, most
\* significant first, in two's complement: <<32767, 65535, 65535, 65535>> is
\* i64::MAX, <<32768, 0, 0, 0>> is i64::MIN, <<65535, 65535, 65535, 65535>> is -1
\* ------------------------------------------------------------------------
\* sum += v on i64: the wrapped sum, and whether the exact sum left the range
AddI64(x, y) ==
    LET s4 == x[4] + y[4]
        s3 == x[3] + y[3] + (s4 \div 65536)
        s2 == x[2] + y[2] + (s3 \div 65536)
        s1 == x[1] + y[1] + (s2 \div 65536)
        sum == <<s1 % 65536, s2 % 65536, s3 % 65536, s4 % 65536>>
    IN  [sum |-> sum,
         overflow |-> (x[1] >= 32768) = (y[1] >= 32768)
                      /\ (sum[1] >= 32768) # (x[1] >= 32768)]

\* the loop of AggregateEvaluator::sum over contexts i.. with the running
\* total acc.sum; acc.overflow: some addition so far left the range
RECURSIVE SumI64(_, _, _, _, _)
SumI64(agg, contexts, g, i, acc) ==
    IF i > Len(contexts) THEN acc
    ELSE LET value == IF agg.variable \in DOMAIN contexts[i] /\ IsSome(agg.property)
                      THEN GetPropertyAsI64(NodeAt(g, contexts[i][agg.variable]),
                                            Unwrap(agg.property))
                      ELSE None
             next == AddI64(acc.sum, Unwrap(value))
         IN  SumI64(agg, contexts, g, i + 1,
                    IF IsSome(value)
                    THEN [sum |-> next.sum, overflow |-> acc.overflow \/ next.overflow]
                    ELSE acc)

\* execute("MATCH (n) RETURN SUM(n.v)", graph) in a build with overflow checks
\* (the addition panics when it leaves the range) or without (it wraps)
ExecuteSum(overflow_checks) ==
    /\ query = None
    /\ LET agg == Aggregate("Sum", "n", Some("v"))
           q == Query(<<OneNode("n")>>, None, <<Item(agg)>>)
           bindings_list == MatchPatterns(q, Graph).bindings_list
           total == SumI64(agg, [k \in 1..Len(bindings_list) |-> ToContext(bindings_list[k])],
                           Graph, 1, [sum |-> <<0, 0, 0, 0>>, overflow |-> FALSE])
       IN  /\ query' = Some(q)
           /\ final_bindings' = Some(bindings_list)
           /\ result' = Some(IF total.overflow /\ overflow_checks
                             THEN Panic
                             ELSE Ok(<<AggregateColumnName(agg)>>,
                                     <<MapInsert(EmptyMap, AggregateColumnName(agg),
                                                 JNumber(total.sum))>>))
    /\ text' = None
    /\ single' = None
    /\ UNCHANGED <<nodes, edges, id_map, calls, api>>

\* nodes whose v is i64::MAX, 1, 2^62, i64::MIN, -1, -2^62, and the string "9"
NextSum ==
    \/ \E v \in { JNumber(<<32767, 65535, 65535, 65535>>), JNumber(<<0, 0, 0, 1>>),
                  JNumber(<<16384, 0, 0, 0>>), JNumber(<<32768, 0, 0, 0>>),
                  JNumber(<<65535, 65535, 65535, 65535>>), JNumber(<<49152, 0, 0, 0>>),
                  JString(Str9) } :
           AddNode(Node(Str1, None, [k \in {"v"} |-> v]))
    \/ \E overflow_checks \in BOOLEAN : ExecuteSum(overflow_checks)
    \/ Release

SpecSum == Init /\ [][NextSum]_vars

\* ------------------------------------------------------------------------
\* Patterns that name a relationship variable twice, or as a node variable
\* ------------------------------------------------------------------------
NamedRel(r) == RelationshipPattern(Some(r), None, "Right")

\* (a)-[r]->(b)-[r]->(c)
RelTwice == PatternPart(<<ChainNode(AnyNode("a")), ChainRel(NamedRel("r"), AnyNode("b")), ChainRel(NamedRel("r"), AnyNode("c"))>>)

\* (r)-[r]->(b)
RelAsNode == PatternPart(<<ChainNode(AnyNode("r")), ChainRel(NamedRel("r"), AnyNode("b"))>>)

\* MATCH (a), (c); (a:admin), (c:user); (a)-[]->(b), (c); (c), (a)-[:knows]->(b);
\* (a)-[]-(b), (c)<-[:likes]-(d)
TwoParts ==
    { <<OneNode("a"), OneNode("c")>>,
      <<PatternPart(<<ChainNode(NodePattern(Some("a"), <<"admin">>))>>),
        PatternPart(<<ChainNode(NodePattern(Some("c"), <<"user">>))>>)>>,
      <<Hop("a", AnyRel("Right"), AnyNode("b")), OneNode("c")>>,
      <<OneNode("c"), Hop("a", RelationshipPattern(None, Some(Knows), "Right"), AnyNode("b"))>>,
      <<Hop("a", AnyRel("Both"), AnyNode("b")),
        Hop("c", RelationshipPattern(None, Some(Likes), "Left"), AnyNode("d"))>> }

\* parse_range_literal for *2, *1..2, *2.. and *..3
NextMatch ==
    \/ \E node \in NodePool : AddNode(node)
    \/ \E from, to \in 0..(MaxNodes - 1), rel_type \in RelTypes : AddEdge(from, to, rel_type)
    \/ \E q \in { Query(<<RelTwice>>, None, <<Item(Ref("a")), Item(Ref("r")), Item(Ref("c"))>>),
                  Query(<<RelAsNode>>, None, <<Item(Ref("r")), Item(Ref("b"))>>) }
                \cup { Query(parts, None, <<Item(Ref("a")), Item(Ref("c"))>>) :
                         parts \in TwoParts }
                \cup { Query(<<Hop("a", [AnyRel(dir) EXCEPT !.range = Some(range)], AnyNode("b"))>>,
                             None, <<Item(Ref("a")), Item(Ref("b"))>>) :
                         dir \in {"Right", "Left", "Both"}, range \in ({ [start |-> Some(2), end |-> Some(2)], [start |-> Some(1), end |-> Some(2)], [start |-> Some(2), end |-> None], [start |-> None, end |-> Some(3)] }) } : Execute(q)
    \/ Release

SpecMatch == Init /\ [][NextMatch]_vars

\* ------------------------------------------------------------------------
\* SUM over graphs of up to MaxPeople nodes: the three users of test_basic_sum
\* (ages 30, 25, 35, roles admin, user, admin), a node whose age is a string
\* and a node without an age
\* ------------------------------------------------------------------------
\* Graph::add_node, on a graph that may grow to MaxPeople nodes
AddPerson(node) ==
    /\ Len(nodes) < MaxPeople
    /\ id_map' = [i \in DOMAIN id_map \cup {node.id} |->
                    IF i = node.id THEN Len(nodes) ELSE id_map[i]]
    /\ nodes' = Append(nodes, node)
    /\ api' = Some([call |-> "add_node", idx |-> Len(nodes)])
    /\ UNCHANGED <<edges, calls>>
    /\ NoCall

\* MATCH (n:L) RETURN SUM(..) and MATCH (u)-[r]->(v) RETURN SUM(..), where SUM
\* names an integer property, a string property, no property, a variable the
\* pattern does not bind and the relationship variable
NextAges ==
    \/ \E p \in { [id |-> <<49>>, role |-> Some("admin"), age |-> Some(JNumber(30))],
                  [id |-> <<50>>, role |-> Some("user"), age |-> Some(JNumber(25))],
                  [id |-> <<51>>, role |-> Some("admin"), age |-> Some(JNumber(35))],
                  [id |-> <<52>>, role |-> Some("user"), age |-> Some(JString(Str9))],
                  [id |-> <<53>>, role |-> None, age |-> None] } :
           AddPerson(Node(p.id, p.role,
                          [k \in {"id"} \cup (IF IsSome(p.role) THEN {"role"} ELSE {})
                                        \cup (IF IsSome(p.age) THEN {"age"} ELSE {}) |->
                             CASE k = "id" -> JString(p.id)
                               [] k = "role" -> JString(IF p.role = Some("admin")
                                                        THEN <<97, 100, 109, 105, 110>>
                                                        ELSE <<117, 115, 101, 114>>)
                               [] OTHER -> Unwrap(p.age)]))
    \/ \E to \in {0, 1} : AddEdge(0, to, Knows)
    \/ \E q \in { Query(<<PatternPart(<<ChainNode(NodePattern(Some("n"), ls))>>)>>, None,
                        <<Item(agg)>>) :
                    ls \in {<<>>, <<"admin">>, <<"user">>},
                    agg \in { Aggregate("Sum", "n", Some("age")),
                              Aggregate("Sum", "n", Some("role")),
                              Aggregate("Sum", "n", None),
                              Aggregate("Sum", "x", Some("age")) } }
                \cup { Query(<<Hop("u", RelationshipPattern(Some("r"), None, "Right"),
                                   AnyNode("v"))>>, None, <<Item(agg)>>) :
                         agg \in { Aggregate("Sum", "v", Some("age")),
                                   Aggregate("Sum", "u", Some("age")),
                                   Aggregate("Sum", "r", Some("age")) } } : Execute(q)
    \/ Release

SpecAges == Init /\ [][NextAges]_vars

\* ------------------------------------------------------------------------
\* Callers of engine::execute(text, &graph) on one graph, one call after the
\* other; each caller keeps the text it sent and the result it got until it
\* drops them.  The bindings of a call are HashMaps, and a HashMap is
\* iterated in an order its hasher decides: every call draws its own
\* ------------------------------------------------------------------------

AllIdle == \A c \in Callers : calls[c].pc = "idle"

\* the orders in which a HashMap with these keys may be iterated
KeyOrders(keys) ==
    { s \in [1..Cardinality(keys) -> keys] :
        \A i, j \in 1..Cardinality(keys) : s[i] = s[j] => i = j }

\* BindLoop as it would be if the context were complete with its first node
RECURSIVE BindLoopFirst(_, _, _, _)
BindLoopFirst(bindings, iter, i, ctx) ==
    IF i > Len(iter) THEN ctx
    ELSE IF bindings[iter[i]].kind = "Node"
         THEN [v \in {iter[i]} |-> bindings[iter[i]].idx]
         ELSE BindLoopFirst(bindings, iter, i + 1, ctx)

\* the loop `for (var, entity) in bindings` of execute_aggregate_return, which
\* visits the entries of the map in the order iter: ctx.bind(var, idx) for
\* every entry that is a node
RECURSIVE BindLoop(_, _, _, _)
BindLoop(bindings, iter, i, ctx) ==
    IF i > Len(iter) THEN ctx
    ELSE LET var == iter[i]
             entity == bindings[var]
         IN  BindLoop(bindings, iter, i + 1,
                      IF entity.kind = "Node"
                      THEN [v \in DOMAIN ctx \cup {var} |->
                              IF v = var THEN entity.idx ELSE ctx[v]]
                      ELSE ctx)

\* engine::execute(text, &graph) called by caller c: parse_query(text)?, then
\* QueryExecutor::execute.  execute_aggregate_return iterates every bindings
\* map to build its EvalContext.  The maps of one call are clones of the map
\* the call began with (let mut bindings_list = vec![HashMap::new()]) and
\* share its hasher, so they are iterated in one order of the variable names,
\* iter, which the call record keeps
Call(c, t) ==
    /\ calls[c].pc = "idle"
    /\ LET ast_query == ParseQuery(t)
           q == ast_query.value
           matched == MatchPatterns(q, Graph)
           bindings_list == FilterWhere(q, Graph, matched.bindings_list)
           own(bindings, iter) == LET bound(var) == var \in DOMAIN bindings
                                  IN  SelectSeq(iter, bound)
           done == [IdleCall EXCEPT !.pc = "done", !.text = Some(t)]
       IN  IF ~ast_query.ok
           THEN calls' = [calls EXCEPT ![c] =
                    [done EXCEPT !.result = Some([tag |-> "ParseError",
                                                  columns |-> <<>>, rows |-> <<>>])]]
           ELSE IF matched.panicked
           THEN calls' = [calls EXCEPT ![c] = [done EXCEPT !.result = Some(Panic)]]
           ELSE IF HasAggregate(q)
           THEN \E iter \in KeyOrders(UNION { DOMAIN bindings_list[k] :
                                                k \in 1..Len(bindings_list) }) :
                    calls' = [calls EXCEPT ![c] =
                        [done EXCEPT !.iter = Some(iter),
                                     !.result = Some(AggregateLoop(
                                         q.return_clause.items, 1,
                                         [k \in 1..Len(bindings_list) |->
                                             BindLoop(bindings_list[k],
                                                      own(bindings_list[k], iter),
                                                      1, [v \in {} |-> 0])],
                                         Graph, <<>>, EmptyMap))]]
           ELSE calls' = [calls EXCEPT ![c] =
                    [done EXCEPT !.result = Some(ExecuteNormalReturn(
                                         q.return_clause, bindings_list, Graph))]]
    /\ UNCHANGED <<nodes, edges, id_map, query, final_bindings, result, text, single, api>>

\* caller c drops the text and the result
Drop(c) ==
    /\ calls[c].pc = "done"
    /\ calls' = [calls EXCEPT ![c] = IdleCall]
    /\ UNCHANGED <<nodes, edges, id_map, query, final_bindings, result, text, single, api>>

\* the graph changes only while no caller holds a result.  The texts:
\* MATCH (u)-[r]->(v) RETURN SUM(v.age); MATCH (u)-[r]->(v) RETURN u, v;
\* MATCH (n) RETURN COUNT(n), n.id; MATCH (n) RETURN avg(n.age)
NextRepeat ==
    \/ \E node \in { n \in NodePool : n.label # None } : AllIdle /\ AddNode(node)
    \/ \E to \in {0, 1} : AllIdle /\ AddEdge(0, to, Knows)
    \/ \E c \in Callers,
          t \in { QueryText(<<Hop("u", RelationshipPattern(Some("r"), None, "Right"),
                                  AnyNode("v"))>>, item_pairs) :
                    item_pairs \in { <<AggregateCallPair(<<83, 85, 77>>, "v", Some("age"))>>,
                                     <<ReferencePair("u", None), ReferencePair("v", None)>> } }
             \cup { QueryText(<<OneNode("n")>>, item_pairs) :
                      item_pairs \in { <<AggregateCallPair(<<67, 79, 85, 78, 84>>, "n", None),
                                         ReferencePair("n", Some("id"))>>,
                                       <<AggregateCallPair(<<97, 118, 103>>, "n", Some("age"))>> } } :
           Call(c, t)
    \/ \E c \in Callers : Drop(c)

SpecRepeat == Init /\ [][NextRepeat]_vars

\* ------------------------------------------------------------------------
\* Properties
\* ------------------------------------------------------------------------
Called == query # None
Q == Unwrap(query)
R == Unwrap(result)
Items == Q.return_clause.items

\* the query is MATCH (v:L1:..:Lk) with no WHERE
IsNodeQuery ==
    /\ Len(Q.match_clause.patterns) = 1
    /\ Len(Q.match_clause.patterns[1].chains) = 1
    /\ IsSome(Q.match_clause.patterns[1].chains[1].node.variable)
    /\ Q.where_clause = None
NodeQueryPattern == Q.match_clause.patterns[1].chains[1].node

\* indices (1-based positions) of the nodes whose label is one of the labels
LabelledAmong(labels) ==
    {i \in 1..Len(nodes) :
        \E k \in 1..Len(labels) : nodes[i].label = <<labels[k]>>}

IsCountOfNodes ==
    /\ IsNodeQuery
    /\ Items = <<Item(Aggregate("Count", Unwrap(NodeQueryPattern.variable), None))>>

\* C1: MATCH (n:L1:..:Lk) RETURN COUNT(n) returns one row with one column whose
\* value is the number of nodes whose label is one of L1..Lk, and the number of
\* all nodes when k = 0; a node without a label is not counted when k > 0.
C1_CountByLabel ==
    (Called /\ IsCountOfNodes) =>
        /\ R.tag = "Ok"
        /\ Len(R.columns) = 1
        /\ Len(R.rows) = 1
        /\ DOMAIN R.rows[1] = {R.columns[1]}
        /\ R.rows[1][R.columns[1]] =
              JNumber(IF NodeQueryPattern.labels = <<>> THEN Len(nodes)
                      ELSE Cardinality(LabelledAmong(NodeQueryPattern.labels)))

\* a count over two labels on a graph holding a node without a label and a
\* node with one of the labels
C1_Witness ==
    /\ Called /\ IsCountOfNodes
    /\ Len(NodeQueryPattern.labels) = 2
    /\ \E i, j \in 1..Len(nodes) : nodes[i].label = None /\ nodes[j].label = Some("user")
    /\ R.rows[1][R.columns[1]] = JNumber(1)

IsAgg(i) == Items[i].expression.kind = "Aggregate"
Mixed ==
    /\ \E i \in 1..Len(Items) : IsAgg(i)
    /\ \E i \in 1..Len(Items) : ~IsAgg(i)
AllAggregate == \A i \in 1..Len(Items) : IsAgg(i)
NoAggregate == \A i \in 1..Len(Items) : ~IsAgg(i)

\* C2: a RETURN clause with at least one aggregate item and at least one
\* non-aggregate item makes execute fail with an ExecutionError, in either
\* order of the items and on every graph; no QueryResult is returned.
C2_MixedReturnFails ==
    (Called /\ Mixed) =>
        /\ R.tag = "ExecutionError"
        /\ R.columns = <<>>
        /\ R.rows = <<>>

\* RETURN COUNT(n), n.id (aggregate first) on a graph with nodes has failed
C2_Witness ==
    /\ Called /\ Mixed
    /\ Len(Items) = 2 /\ IsAgg(1) /\ ~IsAgg(2) /\ Items[2].alias = None
    /\ Len(nodes) = 2
    /\ final_bindings = Some(<<[n |-> NodeId(0)], [n |-> NodeId(1)]>>)
    /\ R.tag = "ExecutionError"

\* C3: a query whose RETURN items are all aggregate or all non-aggregate is
\* answered with Ok on every graph; the call returns no error and is not aborted.
C3_NeverAborts ==
    (Called /\ ~Mixed) => R.tag = "Ok"

\* C4: when every RETURN item is an aggregate the result has exactly one row,
\* whatever the number of items and of surviving bindings; with no surviving
\* binding the call still succeeds and the row holds 0 for every COUNT and SUM.
C4_AggregateOneRow ==
    (Called /\ AllAggregate) =>
        /\ R.tag = "Ok"
        /\ Len(R.rows) = 1
        /\ Len(R.columns) = Len(Items)
        /\ final_bindings = Some(<<>>) =>
              \A i \in 1..Len(Items) : R.rows[1][R.columns[i]] = JNumber(0)

\* three aggregates over a label no node carries, on a graph with two nodes
C4_Witness ==
    /\ Called /\ AllAggregate
    /\ Len(Items) = 3
    /\ Len(nodes) = 2
    /\ final_bindings = Some(<<>>)
    /\ Len(R.rows) = 1
    /\ \A i \in 1..3 : R.rows[1][R.columns[i]] = JNumber(0)

\* the bindings MATCH (v:L1:..:Lk) produces: one per matching node, in node
\* index order
NodeQueryBindings ==
    LET v == Unwrap(NodeQueryPattern.variable)
        labels == NodeQueryPattern.labels
        hit(i) == labels = <<>> \/ (i + 1) \in LabelledAmong(labels)
        idxs == SelectSeq([k \in 1..Len(nodes) |-> k - 1], hit)
    IN  [k \in 1..Len(idxs) |-> [x \in {v} |-> NodeId(idxs[k])]]

\* C5: without aggregates the result has one row per binding that survives
\* MATCH and WHERE (none, and no error, when none survives), in the order the
\* bindings were produced (node index order for MATCH (n)), duplicates kept,
\* and one column per RETURN item in RETURN order.
C5_NormalRows ==
    (Called /\ NoAggregate) =>
        /\ R.tag = "Ok"
        /\ final_bindings # None
        /\ Len(R.rows) = Len(Unwrap(final_bindings))
        /\ Len(R.columns) = Len(Items)
        /\ \A i \in 1..Len(Items) : R.columns[i] = NormalItemColumn(Items[i])
        /\ \A k \in 1..Len(R.rows) : \A i \in 1..Len(Items) :
              (\A j \in (i + 1)..Len(Items) : R.columns[j] # R.columns[i]) =>
                  R.rows[k][R.columns[i]] =
                      EvaluateExpressionValue(Items[i].expression,
                                              Unwrap(final_bindings)[k], Graph)
        /\ IsNodeQuery => Unwrap(final_bindings) = NodeQueryBindings

\* MATCH (n) RETURN n.id on a graph holding the same node twice: two equal rows
C5_Witness ==
    /\ Called /\ NoAggregate /\ IsNodeQuery
    /\ Len(Items) = 1
    /\ Len(nodes) = 2 /\ nodes[1] = nodes[2]
    /\ Len(R.rows) = 2 /\ R.rows[1] = R.rows[2]
    /\ Unwrap(final_bindings)[1] # Unwrap(final_bindings)[2]

\* the query is MATCH (a)-[rel]-(b:L..) over two distinct variables, no WHERE
IsHopQuery ==
    /\ Len(Q.match_clause.patterns) = 1
    /\ Len(Q.match_clause.patterns[1].chains) = 2
    /\ Q.match_clause.patterns[1].chains[1].node.labels = <<>>
    /\ IsSome(Q.match_clause.patterns[1].chains[1].node.variable)
    /\ IsSome(Q.match_clause.patterns[1].chains[2].node.variable)
    /\ Q.match_clause.patterns[1].chains[1].node.variable
         # Q.match_clause.patterns[1].chains[2].node.variable
    /\ Q.where_clause = None
HopA == Unwrap(Q.match_clause.patterns[1].chains[1].node.variable)
HopB == Unwrap(Q.match_clause.patterns[1].chains[2].node.variable)
HopRel == Q.match_clause.patterns[1].chains[2].rel
HopEnd == Q.match_clause.patterns[1].chains[2].node

\* the final bindings, restricted to the two node variables
HopBindings ==
    LET fb == Unwrap(final_bindings) IN
    [k \in 1..Len(fb) |-> [v \in {HopA, HopB} |-> fb[k][v]]]

HopPair(a_idx, b_idx) ==
    [v \in {HopA, HopB} |-> IF v = HopA THEN NodeId(a_idx) ELSE NodeId(b_idx)]

\* edge e has the type the pattern asks for and its end at b carries b's label
HopEdgeOk(e, b_idx) ==
    /\ HopRel.rel_type = None \/ HopRel.rel_type = <<e.rel_type>>
    /\ HopEnd.labels = <<>>
       \/ \E k \in 1..Len(HopEnd.labels) : nodes[b_idx + 1].label = <<HopEnd.labels[k]>>

\* one binding a = e.from, b = e.to per qualifying edge, in edge order
HopPerEdgeRight ==
    LET ok(e) == HopEdgeOk(e, e.to)
        es == SelectSeq(edges, ok)
    IN  [k \in 1..Len(es) |-> HopPair(es[k].from, es[k].to)]

\* one binding a = e.to, b = e.from per qualifying edge, in edge order
HopPerEdgeLeft ==
    LET ok(e) == HopEdgeOk(e, e.from)
        es == SelectSeq(edges, ok)
    IN  [k \in 1..Len(es) |-> HopPair(es[k].to, es[k].from)]

\* the same, for the edges that leave (enter) node a_idx only
HopRightOf(a_idx) ==
    LET mine(p) == p[HopA] = NodeId(a_idx) IN SelectSeq(HopPerEdgeRight, mine)
HopLeftOf(a_idx) ==
    LET mine(p) == p[HopA] = NodeId(a_idx) IN SelectSeq(HopPerEdgeLeft, mine)

\* the results for direction Right and for direction Left: by start node
HopRightResult == ConcatAll([i \in 1..Len(nodes) |-> HopRightOf(i - 1)])
HopLeftResult == ConcatAll([i \in 1..Len(nodes) |-> HopLeftOf(i - 1)])

SeqCount(seq, x) == Cardinality({k \in 1..Len(seq) : seq[k] = x})
SameBag(s, t) ==
    /\ Len(s) = Len(t)
    /\ \A k \in 1..Len(s) : SeqCount(s, s[k]) = SeqCount(t, s[k])

\* C6 as stated: a single hop yields one binding per qualifying edge, with
\* a = e.from, b = e.to for Right and a = e.to, b = e.from for Left, and for an
\* undirected pattern the result is the Right result followed by the Left result.
C6_Original ==
    (Called /\ IsHopQuery) =>
        CASE HopRel.direction = "Right" -> SameBag(HopBindings, HopPerEdgeRight)
          [] HopRel.direction = "Left"  -> SameBag(HopBindings, HopPerEdgeLeft)
          [] OTHER -> HopBindings = HopRightResult \o HopLeftResult

\* C6 amended: as stated for Right and Left; for an undirected pattern the
\* result holds the bindings of the Right and of the Left result with the same
\* multiplicities, ordered by start node: for each node in index order its
\* Right bindings followed by its Left bindings.
C6_SingleHop ==
    (Called /\ IsHopQuery) =>
        CASE HopRel.direction = "Right" ->
                /\ HopBindings = HopRightResult
                /\ SameBag(HopBindings, HopPerEdgeRight)
          [] HopRel.direction = "Left" ->
                /\ HopBindings = HopLeftResult
                /\ SameBag(HopBindings, HopPerEdgeLeft)
          [] OTHER ->
                /\ HopBindings =
                      ConcatAll([i \in 1..Len(nodes) |->
                                    HopRightOf(i - 1) \o HopLeftOf(i - 1)])
                /\ SameBag(HopBindings, HopRightResult \o HopLeftResult)

\* an undirected, typed hop on a graph with an edge of the type and one of
\* another type: two bindings, not in the order Right-then-Left
C6_Witness ==
    /\ Called /\ IsHopQuery
    /\ HopRel.direction = "Both"
    /\ HopRel.rel_type = Some(Knows)
    /\ \E i, j \in 1..Len(edges) : edges[i].rel_type = Knows /\ edges[j].rel_type = Likes
    /\ Len(HopBindings) = 2
    /\ HopBindings # HopRightResult \o HopLeftResult

\* the pattern names every node, names no relationship, and there is no WHERE
PatternParts == Q.match_clause.patterns
IsNamedNodePattern ==
    /\ Q.where_clause = None
    /\ \A p \in 1..Len(PatternParts) :
          /\ PatternParts[p].chains[1].kind = "Node"
          /\ \A k \in 1..Len(PatternParts[p].chains) :
                /\ IsSome(PatternParts[p].chains[k].node.variable)
                /\ PatternParts[p].chains[k].kind = "Relationship" =>
                      /\ k > 1
                      /\ PatternParts[p].chains[k].rel.variable = None
PatternVars ==
    UNION { { Unwrap(PatternParts[p].chains[k].node.variable) :
                k \in 1..Len(PatternParts[p].chains) } :
            p \in 1..Len(PatternParts) }

\* some edge of the asked type joins x and y in the asked direction
SatEdge(rel_pat, x, y) ==
    \E i \in 1..Len(edges) :
        /\ rel_pat.rel_type = None \/ rel_pat.rel_type = <<edges[i].rel_type>>
        /\ \/ rel_pat.direction # "Left" /\ edges[i].from = x /\ edges[i].to = y
           \/ rel_pat.direction # "Right" /\ edges[i].from = y /\ edges[i].to = x

\* the assignment s of nodes to the pattern's variables satisfies every
\* occurrence of every variable: labels at each node pattern, an edge for each
\* relationship pattern between the nodes of the variables on either side
SatPattern(s) ==
    \A p \in 1..Len(PatternParts) :
        \A k \in 1..Len(PatternParts[p].chains) :
            LET c == PatternParts[p].chains[k]
                n == nodes[s[Unwrap(c.node.variable)] + 1]
            IN  /\ c.node.labels = <<>>
                   \/ \E j \in 1..Len(c.node.labels) : n.label = <<c.node.labels[j]>>
                /\ c.kind = "Relationship" =>
                      SatEdge(c.rel,
                              s[Unwrap(PatternParts[p].chains[k - 1].node.variable)],
                              s[Unwrap(c.node.variable)])

SatAssignments ==
    { s \in [PatternVars -> 0..(Len(nodes) - 1)] : SatPattern(s) }

FinalSet == { Unwrap(final_bindings)[k] : k \in 1..Len(Unwrap(final_bindings)) }

IsMutualQuery ==
    PatternParts = <<Hop("a", AnyRel("Right"), AnyNode("b")),
                     Hop("b", AnyRel("Right"), AnyNode("a"))>>

\* C7: a node variable stands for one node on all its occurrences: the final
\* bindings are exactly the assignments of nodes to variables under which every
\* occurrence is satisfied; MATCH (a)-[]->(b), (b)-[]->(a) yields exactly the
\* pairs joined by an edge in each direction.
C7_VariableCoherence ==
    (Called /\ IsNamedNodePattern) =>
        /\ FinalSet = { [v \in PatternVars |-> NodeId(s[v])] : s \in SatAssignments }
        /\ IsMutualQuery =>
              { <<b["a"].idx, b["b"].idx>> : b \in FinalSet } =
              { xy \in (0..(Len(nodes) - 1)) \X (0..(Len(nodes) - 1)) :
                  /\ \E i \in 1..Len(edges) :
                        edges[i].from = xy[1] /\ edges[i].to = xy[2]
                  /\ \E i \in 1..Len(edges) :
                        edges[i].from = xy[2] /\ edges[i].to = xy[1] }

\* edges 0->1 and 1->1: the candidate a = 0, b = 1 reaches node 1 from b where
\* a is bound to node 0 and is dropped; a = 1, b = 1 is kept
C7_Witness ==
    /\ Called /\ IsMutualQuery
    /\ \E i, j \in 1..Len(edges) :
          /\ edges[i].from = 0 /\ edges[i].to = 1
          /\ edges[j].from = 1 /\ edges[j].to = 1
    /\ FinalSet = { [v \in {"a", "b"} |-> NodeId(1)] }

\* the query is MATCH (n) WHERE n.p <op> <term> RETURN ..
IsWhereQuery ==
    /\ PatternParts = <<OneNode("n")>>
    /\ IsSome(Q.where_clause)
    /\ Unwrap(Q.where_clause).expression.kind = "Comparison"
    /\ IsSome(Unwrap(Q.where_clause).expression.operator)
    /\ IsSome(Unwrap(Q.where_clause).expression.right)
    /\ Unwrap(Q.where_clause).expression.left.variable = "n"
    /\ IsSome(Unwrap(Q.where_clause).expression.left.property)
WhereOp == Unwrap(Unwrap(Q.where_clause).expression.operator)
WhereKey == Unwrap(Unwrap(Q.where_clause).expression.left.property)
WhereTerm == Unwrap(Unwrap(Q.where_clause).expression.right)

\* s comes strictly before t in the lexicographic order on character codes
LexLess(s, t) ==
    \E k \in 1..(Len(t)) :
        /\ k <= Len(s) + 1
        /\ \A j \in 1..(k - 1) : s[j] = t[j]
        /\ k = Len(s) + 1 \/ s[k] < t[k]

\* r occurs in l as a run of consecutive characters
IsSubstring(r, l) ==
    \E i \in 0..Len(l) :
        /\ i + Len(r) <= Len(l)
        /\ \A j \in 1..Len(r) : l[i + j] = r[j]

StringHolds(op, l, r) ==
    CASE op = "Eq"       -> l = r
      [] op = "NotEq"    -> l # r
      [] op = "Contains" -> IsSubstring(r, l)
      [] op = "Lt"       -> LexLess(l, r)
      [] op = "Gt"       -> LexLess(r, l)
      [] op = "LtEq"     -> ~LexLess(r, l)
      [] op = "GtEq"     -> ~LexLess(l, r)

\* the two sides of the comparison for node i (0-based), as strings
WhereLeft(i) ==
    LET o == GetPropertyAsString(nodes[i + 1], WhereKey)
    IN  IF o = None THEN NullStr ELSE Unwrap(o)
WhereRight(i) ==
    IF WhereTerm.kind = "Literal"
    THEN IF WhereTerm.lit = "String" THEN WhereTerm.s ELSE IntToString(WhereTerm.n)
    ELSE nodes[i + 1].id

WhereKept ==
    LET idxs == [k \in 1..Len(nodes) |-> k - 1]
        holds(i) == StringHolds(WhereOp, WhereLeft(i), WhereRight(i))
    IN  SelectSeq(idxs, holds)

FinalNodeIdxs ==
    [k \in 1..Len(Unwrap(final_bindings)) |-> Unwrap(final_bindings)[k]["n"].idx]

HasAge(i, v) == "age" \in DOMAIN nodes[i + 1].data /\ nodes[i + 1].data["age"] = v

\* C8: WHERE n.p <op> <term> keeps exactly the nodes for which the operator
\* holds between the two sides taken as strings (equality, lexicographic order,
\* substring); a node whose age is the number 10 or the number 2 is excluded by
\* > "9", a node whose age is 10 is kept by < "9", and "10" < "9" holds.
C8_StringComparison ==
    (Called /\ IsWhereQuery) =>
        /\ FinalNodeIdxs = WhereKept
        /\ (WhereKey = "age" /\ WhereOp = "Gt" /\ WhereTerm = LitString(Str9)) =>
              \A k \in 1..Len(FinalNodeIdxs) :
                  /\ ~HasAge(FinalNodeIdxs[k], JNumber(10))
                  /\ ~HasAge(FinalNodeIdxs[k], JNumber(2))
        /\ (WhereKey = "age" /\ WhereOp = "Lt" /\ WhereTerm = LitString(Str9)) =>
              \A i \in 0..(Len(nodes) - 1) :
                  HasAge(i, JNumber(10)) => \E k \in 1..Len(FinalNodeIdxs) :
                                                FinalNodeIdxs[k] = i
        /\ LexLess(<<49, 48>>, Str9)

\* nodes with ages 10 and 2 under WHERE n.age > "9": nothing is kept
C8_Witness ==
    /\ Called /\ IsWhereQuery
    /\ WhereKey = "age" /\ WhereOp = "Gt" /\ WhereTerm = LitString(Str9)
    /\ \E i, j \in 0..(Len(nodes) - 1) : HasAge(i, JNumber(10)) /\ HasAge(j, JNumber(2))
    /\ final_bindings = Some(<<>>)

FinalBindings == Unwrap(final_bindings)

\* what binding b adds to SUM(agg.variable.agg.property): the integer value of
\* the property of the node bound to the variable, 0 in every other case
SumContribution(agg, b) ==
    IF /\ agg.variable \in DOMAIN b
       /\ b[agg.variable].kind = "Node"
       /\ agg.property # None
    THEN LET data == nodes[b[agg.variable].idx + 1].data
             key == Unwrap(agg.property)
         IN  IF key \in DOMAIN data /\ data[key].t = "Number"
             THEN data[key].n ELSE 0
    ELSE 0

RECURSIVE ExpectedSum(_, _)
ExpectedSum(agg, k) ==
    IF k = 0 THEN 0
    ELSE ExpectedSum(agg, k - 1) + SumContribution(agg, FinalBindings[k])

IsLabelQueryOver(ls) ==
    /\ PatternParts = <<PatternPart(<<ChainNode(NodePattern(Some("n"), ls))>>)>>
    /\ Q.where_clause = None

\* the graph holds exactly three nodes: ages 30, 25 and 35, labelled admin,
\* user and admin
ThreeAged ==
    /\ Len(nodes) = 3
    /\ \E i, j, k \in 0..2 :
          /\ {i, j, k} = {0, 1, 2}
          /\ HasAge(i, JNumber(30)) /\ nodes[i + 1].label = <<"admin">>
          /\ HasAge(j, JNumber(25)) /\ nodes[j + 1].label = <<"user">>
          /\ HasAge(k, JNumber(35)) /\ nodes[k + 1].label = <<"admin">>

\* C9: SUM(v.p) is the sum over the surviving bindings of the integer property
\* p of the node bound to v, where a binding adds 0 and no error is raised when
\* v is not bound to a node, the property is absent or not an integer, or no
\* property is named; over nodes with ages 30, 25, 35 labelled admin, user,
\* admin the sum over all nodes is 90 and the sum over admin nodes is 65.
C9_SumSemantics ==
    (Called /\ AllAggregate) =>
        /\ R.tag = "Ok"
        /\ \A i \in 1..Len(Items) :
              Items[i].expression.func = "Sum" =>
                  R.rows[1][R.columns[i]] =
                      JNumber(ExpectedSum(Items[i].expression, Len(FinalBindings)))
        /\ (ThreeAged /\ Items = <<Item(Aggregate("Sum", "n", Some("age")))>>) =>
               /\ IsLabelQueryOver(<<>>) => R.rows[1]["SUM(n.age)"] = JNumber(90)
               /\ IsLabelQueryOver(<<"admin">>) => R.rows[1]["SUM(n.age)"] = JNumber(65)

\* MATCH (n:admin) RETURN SUM(n.age) over the nodes with ages 30, 25 and 35
\* labelled admin, user and admin returns 65
C9_Witness ==
    /\ Called /\ ThreeAged /\ IsLabelQueryOver(<<"admin">>)
    /\ Items = <<Item(Aggregate("Sum", "n", Some("age")))>>
    /\ Len(FinalBindings) = 2
    /\ R.rows[1]["SUM(n.age)"] = JNumber(65)

IsEveryEdgeQuery ==
    /\ Len(PatternParts) = 1
    /\ Len(PatternParts[1].chains) = 2
    /\ PatternParts[1].chains[1].node = AnyNode("u")
    /\ PatternParts[1].chains[2].node = AnyNode("v")
    /\ PatternParts[1].chains[2].rel.rel_type = None
    /\ PatternParts[1].chains[2].rel.direction = "Right"
    /\ Q.where_clause = None

\* C10: COUNT is the number of surviving bindings whatever variable or property
\* it names; over MATCH (u)-[]->(v) it is the number of edges.
C10_CountBindings ==
    (Called /\ AllAggregate) =>
        /\ R.tag = "Ok"
        /\ \A i \in 1..Len(Items) :
              Items[i].expression.func = "Count" =>
                  /\ R.rows[1][R.columns[i]] = JNumber(Len(FinalBindings))
                  /\ IsEveryEdgeQuery => R.rows[1][R.columns[i]] = JNumber(Len(edges))

\* MATCH (u)-[]->(v) RETURN COUNT(u) over two edges leaving the same node
C10_Witness ==
    /\ Called /\ IsEveryEdgeQuery
    /\ PatternParts[1].chains[2].rel.variable = None
    /\ Items = <<Item(Aggregate("Count", "u", None))>>
    /\ Len(edges) = 2
    /\ edges[1].from = edges[2].from
    /\ R.rows[1]["COUNT(u)"] = JNumber(2)

\* C11: two executions of the same query text on the same unmodified graph
\* return the same outcome (Ok or the same error), the same columns in the
\* same order and the same rows in the same order, in whatever order each of
\* them iterated its maps.
C11_Idempotent ==
    \A c, d \in Callers :
        (calls[c].pc = "done" /\ calls[d].pc = "done"
           /\ calls[c].text = calls[d].text) =>
            /\ Unwrap(calls[c].result).tag = Unwrap(calls[d].result).tag
            /\ Unwrap(calls[c].result).columns = Unwrap(calls[d].result).columns
            /\ Unwrap(calls[c].result).rows = Unwrap(calls[d].result).rows

\* two callers hold the result of MATCH (u)-[r]->(v) RETURN SUM(v.age) over
\* two edges that end in different nodes; one iterated its maps from u, the
\* other from v
C11_Witness ==
    /\ calls[1].pc = "done" /\ calls[2].pc = "done"
    /\ calls[1].text = calls[2].text
    /\ Len(edges) = 2 /\ edges[1].to # edges[2].to
    /\ calls[1].iter # None /\ calls[2].iter # None
    /\ Unwrap(calls[1].iter)[1] = "u" /\ Unwrap(calls[2].iter)[1] = "v"
    /\ Unwrap(calls[1].result).tag = "Ok"
    /\ Unwrap(calls[1].result).columns = <<"SUM(v.age)">>
    /\ Unwrap(calls[1].result).rows = <<[col \in {"SUM(v.age)"} |-> JNumber(12)]>>

\* the JSON value a reference v.p names in binding b, when v is bound to a node
\* that has property p
RefIsNodeProperty(pv, b) ==
    /\ pv.variable \in DOMAIN b
    /\ b[pv.variable].kind = "Node"
    /\ pv.property # None
    /\ Unwrap(pv.property) \in DOMAIN nodes[b[pv.variable].idx + 1].data
RefValue(pv, b) == nodes[b[pv.variable].idx + 1].data[Unwrap(pv.property)]
RefIsArray(pv, b) == RefIsNodeProperty(pv, b) /\ RefValue(pv, b).t = "Array"

StrTrue == <<116, 114, 117, 101>>
StrFalse == <<102, 97, 108, 115, 101>>

\* the string a reference resolves to; an array resolves to "null"
ExpectedString(pv, b) ==
    IF pv.variable \notin DOMAIN b THEN NullStr
    ELSE IF b[pv.variable].kind = "Node"
    THEN IF pv.property = None THEN nodes[b[pv.variable].idx + 1].id
         ELSE IF ~RefIsNodeProperty(pv, b) THEN NullStr
         ELSE LET v == RefValue(pv, b) IN
              CASE v.t = "String" -> v.s
                [] v.t = "Number" -> IF v.n = 30 THEN <<51, 48>>
                                     ELSE IF v.n = 0 - 3 THEN <<45, 51>>
                                     ELSE IntToString(v.n)
                [] v.t = "Bool"   -> IF v.b THEN StrTrue ELSE StrFalse
                [] OTHER          -> NullStr
    ELSE IF pv.property = None \/ pv.property = <<"type">>
         THEN b[pv.variable].rel
         ELSE NullStr

\* C13 as stated: a reference resolves to the string form of the property, to
\* "null" only for a missing or null property, a relationship property other
\* than type and an unbound variable; to the node id or relationship type when
\* bare.  An array property, being neither missing nor null, has a string form
\* of its own.
C13_Original ==
    (Called /\ final_bindings # None) =>
        \A k \in 1..Len(FinalBindings), pv \in EvalRefs :
            IF RefIsArray(pv, FinalBindings[k])
            THEN EvaluatePropertyOrVariable(pv, FinalBindings[k], Graph) # NullStr
            ELSE EvaluatePropertyOrVariable(pv, FinalBindings[k], Graph)
                    = ExpectedString(pv, FinalBindings[k])

\* C13 amended: as stated, and a property that is an array (any value that is
\* not a string, a number or a boolean) resolves to "null" as well.
C13_Resolve ==
    (Called /\ final_bindings # None) =>
        \A k \in 1..Len(FinalBindings), pv \in EvalRefs :
            EvaluatePropertyOrVariable(pv, FinalBindings[k], Graph)
                = ExpectedString(pv, FinalBindings[k])

\* a binding of n to the node with the array, of r to a relationship: n.tags,
\* r.since and x resolve to "null", n.flag to "false", r to the type
C13_Witness ==
    /\ Called /\ final_bindings # None
    /\ \E k \in 1..Len(FinalBindings) :
          LET b == FinalBindings[k] IN
          /\ "r" \in DOMAIN b /\ b["r"].kind = "Relationship"
          /\ RefIsArray(PropertyOrVariable("n", Some("tags")), b)
          /\ EvaluatePropertyOrVariable(PropertyOrVariable("n", Some("tags")), b, Graph) = NullStr
          /\ EvaluatePropertyOrVariable(PropertyOrVariable("n", Some("flag")), b, Graph) = StrFalse
          /\ EvaluatePropertyOrVariable(PropertyOrVariable("r", Some("since")), b, Graph) = NullStr
          /\ EvaluatePropertyOrVariable(PropertyOrVariable("r", None), b, Graph) = b["r"].rel
          /\ EvaluatePropertyOrVariable(PropertyOrVariable("x", None), b, Graph) = NullStr

\* the query is MATCH .. WHERE <bare reference> RETURN ..
IsBareWhereQuery ==
    /\ IsSome(Q.where_clause)
    /\ Unwrap(Q.where_clause).expression.kind = "Comparison"
    /\ Unwrap(Q.where_clause).expression.operator = None
    /\ Unwrap(Q.where_clause).expression.right = None
BareRef == Unwrap(Q.where_clause).expression.left
Matched == MatchPatterns(Q, Graph).bindings_list

\* the cases the statement lists as false: unbound variable, missing property,
\* null property, empty string, string with the text "null"; everything else
\* is true
TruthAsListed(pv, b) ==
    IF pv.variable \notin DOMAIN b THEN FALSE
    ELSE IF b[pv.variable].kind = "Node"
    THEN IF pv.property = None THEN TRUE
         ELSE IF ~RefIsNodeProperty(pv, b) THEN FALSE
         ELSE LET v == RefValue(pv, b) IN
              CASE v.t = "Null"   -> FALSE
                [] v.t = "String" -> v.s # <<>> /\ v.s # NullStr
                [] OTHER          -> TRUE
    ELSE pv.property = None \/ pv.property = <<"type">>

\* C14 as stated: a bare reference in WHERE keeps a binding iff the resolved
\* string is neither empty nor "null", which is false exactly for a missing
\* property, a null property, an unbound variable, an empty string and a string
\* "null", and true for every other value, a boolean false included.
C14_Original ==
    (Called /\ IsBareWhereQuery) =>
        LET keep(b) == TruthAsListed(BareRef, b) IN
        FinalBindings = SelectSeq(Matched, keep)

\* C14 amended: a bare reference in WHERE keeps a binding iff the resolved
\* string is neither empty nor "null"; besides the listed cases this is false
\* for a property that is an array or object, and true for every other value,
\* a boolean false included.
C14_BareReference ==
    (Called /\ IsBareWhereQuery) =>
        LET keep(b) == ExpectedString(BareRef, b) # <<>>
                       /\ ExpectedString(BareRef, b) # NullStr
            listed(b) == IF RefIsArray(BareRef, b) THEN FALSE
                         ELSE TruthAsListed(BareRef, b)
        IN  /\ FinalBindings = SelectSeq(Matched, keep)
            /\ FinalBindings = SelectSeq(Matched, listed)

\* WHERE n.flag over a node whose flag is false and a node without the
\* property: the first is kept, the second is not
C14_Witness ==
    /\ Called /\ IsBareWhereQuery
    /\ BareRef = PropertyOrVariable("n", Some("flag"))
    /\ Len(Matched) = 2 /\ Len(FinalBindings) = 2
    /\ RefValue(BareRef, FinalBindings[1]) = JBool(FALSE)
    /\ RefValue(BareRef, FinalBindings[2]) = JBool(TRUE)

\* the query is MATCH .. RETURN <bare references> with no WHERE
IsProjectQuery ==
    /\ Q.where_clause = None
    /\ \A i \in 1..Len(Items) :
          /\ Items[i].expression.kind = "Comparison"
          /\ Items[i].expression.operator = None
          /\ Items[i].expression.right = None
          /\ Items[i].alias = None

\* the JSON value of a resolved string: the strings that are the text of a
\* signed 64-bit integer become that number, all others stay strings
ProjectedValue(str) ==
    CASE str = <<49>>          -> JNumber(1)
      [] str = <<51, 48>>      -> JNumber(30)
      [] str = <<45, 51>>      -> JNumber(0 - 3)
      [] str = <<45, 53>>      -> JNumber(0 - 5)
      [] str = <<43, 55>>      -> JNumber(7)
      [] str = <<48, 48, 55>>  -> JNumber(7)
      [] OTHER                 -> JString(str)

\* C15: in a non-aggregate RETURN a bare reference is a JSON number when its
\* resolved string is the text of a signed 64-bit integer and a JSON string
\* holding the resolved string otherwise; the id "1" is the number 1 and a
\* missing property is the string "null".
C15_ProjectionTyping ==
    (Called /\ IsProjectQuery) =>
        /\ R.tag = "Ok"
        /\ Len(R.rows) = Len(FinalBindings)
        /\ \A k \in 1..Len(R.rows), i \in 1..Len(Items) :
              LET b == FinalBindings[k]
                  pv == Items[i].expression.left
                  value == R.rows[k][R.columns[i]]
              IN  /\ value = ProjectedValue(ExpectedString(pv, b))
                  /\ (pv = PropertyOrVariable("n", Some("id"))
                        /\ nodes[b["n"].idx + 1].id = <<49>>) => value = JNumber(1)
                  /\ (pv = PropertyOrVariable("n", Some("gone"))) => value = JString(NullStr)

\* RETURN n.big, n.id over both nodes: the 20-digit text stays a string, a
\* missing property is "null", the id "1" is the number 1, the id "b2" a string
C15_Witness ==
    /\ Called /\ IsProjectQuery
    /\ Items[1].expression.left = PropertyOrVariable("n", Some("big"))
    /\ Len(R.rows) = 2
    /\ R.rows[1]["n.big"] = JString(StrBig)
    /\ R.rows[1]["n.id"] = JNumber(1)
    /\ R.rows[2]["n.big"] = JString(NullStr)
    /\ R.rows[2]["n.id"] = JString(StrB2)

\* the column name of a RETURN item, by the shape of the item
ExpectedColumn(item) ==
    LET e == item.expression IN
    IF item.alias # None THEN Unwrap(item.alias)
    ELSE IF e.kind = "Aggregate"
    THEN LET f == IF e.func = "Count" THEN "COUNT" ELSE "SUM" IN
         IF e.property = None THEN f \o "(" \o e.variable \o ")"
         ELSE f \o "(" \o e.variable \o "." \o Unwrap(e.property) \o ")"
    ELSE IF e.kind = "Comparison" /\ e.operator = None /\ e.right = None
    THEN IF e.left.property = None THEN e.left.variable
         ELSE e.left.variable \o "." \o Unwrap(e.left.property)
    ELSE "expression"

\* C16: a column is named by the alias when there is one, else variable.property,
\* variable, FUNC(var) or FUNC(var.prop) in upper case, else "expression"; the
\* aggregate path and the normal path compute the same name for an item.
C16_ColumnNames ==
    (Called /\ R.tag = "Ok") =>
        /\ Len(R.columns) = Len(Items)
        /\ \A i \in 1..Len(Items) :
              /\ R.columns[i] = ExpectedColumn(Items[i])
              /\ AggregateItemColumn(Items[i]) = NormalItemColumn(Items[i])
        /\ Items = NormalShapes =>
              R.columns = <<"n.age", "n", "a", "expression", "expression", "e">>
        /\ Items = AggregateShapes =>
              R.columns = <<"COUNT(n)", "SUM(n.age)", "c", "SUM(n)">>

\* the aggregate items, one of them with an alias, over two nodes
C16_Witness ==
    /\ Called /\ Items = AggregateShapes
    /\ Len(nodes) = 2
    /\ R.tag = "Ok"
    /\ R.columns = <<"COUNT(n)", "SUM(n.age)", "c", "SUM(n)">>
    /\ R.rows[1]["c"] = JNumber(2)

IsSingleAggregateQuery == Len(Items) = 1 /\ Items[1].expression.kind = "Aggregate"

\* C17: get_single_value gives the value of the only column of the only row
\* when there is exactly one row and one column and None otherwise, and it
\* gives a value for every successful query with a single aggregate.
C17_SingleValue ==
    (Called /\ single # None) =>
        /\ IF Len(R.rows) = 1 /\ Len(R.columns) = 1
           THEN Unwrap(single) = Some(R.rows[1][R.columns[1]])
           ELSE Unwrap(single) = None
        /\ IsSingleAggregateQuery =>
              /\ Unwrap(single) # None
              /\ Unwrap(Unwrap(single)).t = "Number"

\* the count of two nodes, taken from the result
C17_Witness ==
    /\ Called /\ IsSingleAggregateQuery
    /\ Items[1].alias = None
    /\ Len(nodes) = 2
    /\ PatternParts[1].chains[1].node.labels = <<>>
    /\ single = Some(Some(JNumber(2)))

\* the name is the word, given in upper case, in some mix of letter cases
IsNameOf(name, word) ==
    /\ Len(name) = Len(word)
    /\ \A k \in 1..Len(word) : name[k] = word[k] \/ name[k] = word[k] + 32

TextItems == Unwrap(text).item_pairs
AllKnown ==
    \A i \in 1..Len(TextItems) :
        IsNameOf(TextItems[i].func_str, <<67, 79, 85, 78, 84>>)
        \/ IsNameOf(TextItems[i].func_str, <<83, 85, 77>>)

\* C18: a function name that is COUNT or SUM in any letter case yields that
\* aggregate over the variable and property written; with any other name the
\* parse fails and the call returns a parse error, with no query matched and
\* no result.
C18_AggregateNames ==
    (text # None) =>
        IF AllKnown
        THEN /\ query # None
             /\ R.tag = "Ok"
             /\ Len(Items) = Len(TextItems)
             /\ \A i \in 1..Len(TextItems) :
                   Items[i].expression =
                       [kind |-> "Aggregate",
                        func |-> IF Len(TextItems[i].func_str) = 5 THEN "Count" ELSE "Sum",
                        variable |-> TextItems[i].variable,
                        property |-> TextItems[i].property]
        ELSE /\ query = None
             /\ final_bindings = None
             /\ R.tag = "ParseError"
             /\ R.rows = <<>> /\ R.columns = <<>>

\* RETURN sUm(n.age), written in mixed case, over a node of age 10
C18_Witness ==
    /\ text # None
    /\ TextItems = <<AggregateCallPair(<<115, 85, 109>>, "n", Some("age"))>>
    /\ Len(nodes) = 1 /\ HasAge(0, JNumber(10))
    /\ R.tag = "Ok"
    /\ R.rows[1]["SUM(n.age)"] = JNumber(10)

IsTwoHopQuery(mid) ==
    /\ query # None
    /\ Q.match_clause.patterns = <<TwoHop("a", mid, "c")>>

EdgeBetween(from, to) == \E k \in 1..Len(edges) : edges[k].from = from /\ edges[k].to = to

\* C19: for MATCH (a)-[]->()-[]->(c) every returned binding binds a and c to
\* nodes such that c is reached from a by a directed path of exactly two edges.
C19_TwoEdgePath ==
    (IsTwoHopQuery(NoName(<<>>)) /\ R.tag = "Ok") =>
        \A k \in 1..Len(Unwrap(final_bindings)) :
            LET bindings == Unwrap(final_bindings)[k] IN
            /\ {"a", "c"} \subseteq DOMAIN bindings
            /\ \E mid \in 0..(Len(nodes) - 1) :
                  /\ EdgeBetween(bindings["a"].idx, mid)
                  /\ EdgeBetween(mid, bindings["c"].idx)

IsHeadlessQuery ==
    /\ query # None
    /\ \E t \in {None} \cup {Some(r) : r \in RelTypes} :
          Q.match_clause.patterns = <<HeadlessHop(t, "b")>>

HeadlessType == Q.match_clause.patterns[1].chains[2].rel.rel_type

\* C20: every binding returned for ()-[:T]->(b) (or ()-[]->(b)) binds b to
\* the target of an edge of type T (of any edge when no type is written): no
\* binding passes the relationship step unchanged.
C20_StepNeverSkipped ==
    (IsHeadlessQuery /\ R.tag = "Ok") =>
        \A k \in 1..Len(Unwrap(final_bindings)) :
            LET bindings == Unwrap(final_bindings)[k] IN
            /\ "b" \in DOMAIN bindings
            /\ \E j \in 1..Len(edges) :
                  /\ edges[j].to = bindings["b"].idx
                  /\ IsSome(HeadlessType) => edges[j].rel_type = Unwrap(HeadlessType)

Patterns == Q.match_clause.patterns
FB == Unwrap(final_bindings)

\* C21: a relationship variable is bound to the matched relationship; where r
\* appears in two relationship patterns a binding is kept only if both steps
\* matched the same relationship, and binding r does not replace a node
\* variable of the same name.
C21_RelVarCoherent ==
    (query # None /\ R.tag = "Ok") =>
        /\ Patterns = <<RelTwice>> =>
              \A k \in 1..Len(FB) :
                  /\ FB[k]["r"].kind = "Relationship"
                  /\ FB[k]["r"].from_idx = FB[k]["a"].idx /\ FB[k]["r"].to_idx = FB[k]["b"].idx
                  /\ FB[k]["r"].from_idx = FB[k]["b"].idx /\ FB[k]["r"].to_idx = FB[k]["c"].idx
        /\ Patterns = <<RelAsNode>> =>
              \A k \in 1..Len(FB) : FB[k]["r"].kind = "Node"

\* edge e is taken as a neighbour of start node s by the hop's relationship step
HopTakes(e, s) ==
    /\ HopRel.rel_type = None \/ HopRel.rel_type = <<e.rel_type>>
    /\ \/ HopRel.direction \in {"Right", "Both"} /\ e.from = s
       \/ HopRel.direction \in {"Left", "Both"} /\ e.to = s

\* C22: on a graph built by any add_node and add_edge calls, every neighbour
\* index the relationship step of MATCH (a)-[..]-(b) takes from an edge, and
\* every node index stored in a binding, is smaller than the number of nodes,
\* so no access graph.nodes[idx] is out of bounds.
C22_IndicesInBounds ==
    (Called /\ IsHopQuery) =>
        /\ \A s \in 0..(Len(nodes) - 1) : \A k \in 1..Len(edges) :
              HopTakes(edges[k], s) =>
                  (edges[k].from < Len(nodes) /\ edges[k].to < Len(nodes))
        /\ R.tag # "Panic"
        /\ final_bindings # None
        /\ \A k \in 1..Len(FB) : \A v \in {HopA, HopB} : FB[k][v].idx < Len(nodes)

\* the variables named by the first i chain elements of the only pattern part
NamedUpTo(i) ==
    LET chains == Patterns[1].chains IN
    UNION { (IF IsSome(chains[j].node.variable)
             THEN {Unwrap(chains[j].node.variable)} ELSE {})
            \cup (IF chains[j].kind = "Relationship" /\ IsSome(chains[j].rel.variable)
                  THEN {Unwrap(chains[j].rel.variable)} ELSE {}) : j \in 1..i }

\* the bindings list after the first i chain elements
StageAfter(i) ==
    MatchPatterns(Query(<<PatternPart(SubSeq(Patterns[1].chains, 1, i))>>, None, Items),
                  Graph).bindings_list

\* C23: after every node step and every relationship step all bindings of the
\* current list have the same variable names, among them every variable named
\* by a pattern element processed so far; the list after the last step is the
\* one the call goes on with.
C23_UniformKeys ==
    (Called /\ R.tag = "Ok" /\ Len(Patterns) = 1 /\ Q.where_clause = None) =>
        /\ \A i \in 1..Len(Patterns[1].chains) :
              \A k \in 1..Len(StageAfter(i)) :
                  /\ DOMAIN StageAfter(i)[k] = DOMAIN StageAfter(i)[1]
                  /\ NamedUpTo(i) \subseteq DOMAIN StageAfter(i)[k]
        /\ FB = StageAfter(Len(Patterns[1].chains))

\* the bindings of the single pattern part i of the query, matched on its own
PartAlone(i) == MatchPatterns(Query(<<Patterns[i]>>, None, Items), Graph).bindings_list

\* the two bindings have no variable in common and u is their union
IsUnionOf(u, x, y) ==
    /\ DOMAIN x \cap DOMAIN y = {}
    /\ DOMAIN u = DOMAIN x \cup DOMAIN y
    /\ \A v \in DOMAIN x : u[v] = x[v]
    /\ \A v \in DOMAIN y : u[v] = y[v]

\* C24: for two pattern parts that share no variable the bindings are the
\* cartesian product of the parts' separate matches, one binding for each pair,
\* grouped by the binding of the first part; MATCH (a), (c) on N nodes yields
\* N*N bindings, and every binding restricted to the first part's variables
\* is a binding of the first part.
C24_CartesianProduct ==
    (Called /\ R.tag = "Ok" /\ Patterns \in TwoParts) =>
        LET p1 == PartAlone(1)
            p2 == PartAlone(2)
        IN  /\ Len(FB) = Len(p1) * Len(p2)
            /\ \A i \in 1..Len(p1) : \A j \in 1..Len(p2) :
                  IsUnionOf(FB[(i - 1) * Len(p2) + j], p1[i], p2[j])
            /\ Patterns = <<OneNode("a"), OneNode("c")>> =>
                  /\ Len(FB) = Len(nodes) * Len(nodes)
                  /\ \A a, c \in 0..(Len(nodes) - 1) :
                        \E k \in 1..Len(FB) : FB[k] = [v \in {"a", "c"} |->
                                                          IF v = "a" THEN NodeId(a) ELSE NodeId(c)]

\* MATCH (a)-[]-(b), (c)<-[:likes]-(d) with two bindings: two of the first
\* part (one edge seen from both ends) times one of the second
C24_Witness ==
    /\ Called /\ R.tag = "Ok"
    /\ Patterns[1] = Hop("a", AnyRel("Both"), AnyNode("b")) /\ Len(Patterns) = 2
    /\ Len(PartAlone(1)) = 2 /\ Len(PartAlone(2)) = 1
    /\ Len(FB) = 2
    /\ FB[1]["a"] # FB[2]["a"] /\ FB[1]["d"] = FB[2]["d"]

WhereText == Unwrap(text)

\* comparison k of the text holds for node i (0-based), read off the node
CompHolds(k, i) ==
    CASE WhereText.comps[k] = WhereComp("id1")  -> nodes[i + 1].id = <<49>>
      [] WhereText.comps[k] = WhereComp("age9") ->
             HasAge(i, JNumber(10)) \/ HasAge(i, JNumber(2))
      [] WhereText.comps[k] = WhereComp("name") -> "name" \in DOMAIN nodes[i + 1].data

\* positions from..to are one AND group of the text: joined by AND, with an
\* OR or an end of the text on either side
IsAndGroup(from, to) ==
    /\ from = 1 \/ WhereText.ops[from - 1] = "OR"
    /\ to = Len(WhereText.comps) \/ WhereText.ops[to] = "OR"
    /\ \A k \in from..(to - 1) : WhereText.ops[k] = "AND"

\* C25: WHERE keeps, in their order, exactly the bindings for which some AND
\* group of the text has all its comparisons true; AND binds tighter than OR.
C25_OrOfAnds ==
    (Called /\ text # None /\ "ops" \in DOMAIN WhereText) =>
        LET idxs == [k \in 1..Len(nodes) |-> k - 1]
            holds(i) ==
                \E from \in 1..Len(WhereText.comps) : \E to \in from..Len(WhereText.comps) :
                    /\ IsAndGroup(from, to)
                    /\ \A k \in from..to : CompHolds(k, i)
        IN  /\ R.tag = "Ok"
            /\ FinalNodeIdxs = SelectSeq(idxs, holds)

\* n.name OR n.age < "9" AND n.id = "1" on the nodes "3" (named, age "9") and
\* "2" (age 2, no name): "3" is kept by its name alone, which grouping the OR
\* first would not do, and "2" is dropped
C25_Witness ==
    /\ Called /\ text # None /\ "ops" \in DOMAIN WhereText
    /\ WhereText.ops = <<"OR", "AND">>
    /\ WhereText.comps = <<WhereComp("name"), WhereComp("age9"), WhereComp("id1")>>
    /\ Len(nodes) = 2 /\ nodes[1].id = <<51>> /\ nodes[2].id = <<50>>
    /\ FinalNodeIdxs = <<0>>

\* C26: a relationship pattern with a hop range matches single hops only: the
\* bindings are those of the pattern read as one hop, and the result is the
\* result of the same query without the range.
C26_RangeIgnored ==
    (Called /\ IsHopQuery /\ IsSome(HopRel.range)) =>
        /\ HopBindings =
              ConcatAll([i \in 1..Len(nodes) |->
                            CASE HopRel.direction = "Right" -> HopRightOf(i - 1)
                              [] HopRel.direction = "Left"  -> HopLeftOf(i - 1)
                              [] OTHER -> HopRightOf(i - 1) \o HopLeftOf(i - 1)])
        /\ R = ExecuteQuery([Q EXCEPT !.match_clause.patterns =
                                <<Hop(HopA, [HopRel EXCEPT !.range = None], HopEnd)>>],
                            Graph).result

\* MATCH (a)-[*2]->(b) on the cycle 0 -> 1 -> 0: the two single hops are
\* returned, and not the two-hop paths from a node back to itself
C26_Witness ==
    /\ Called /\ IsHopQuery
    /\ HopRel.range = Some([start |-> Some(2), end |-> Some(2)])
    /\ HopRel.direction = "Right"
    /\ Len(edges) = 2 /\ edges[1].from = 0 /\ edges[1].to = 1
    /\ edges[2].from = 1 /\ edges[2].to = 0
    /\ HopBindings = <<HopPair(0, 1), HopPair(1, 0)>>

\* the sum of limb k of the numbers held by the first i nodes
RECURSIVE LimbTotal(_, _)
LimbTotal(k, i) ==
    IF i = 0 THEN 0
    ELSE LimbTotal(k, i - 1)
         + (IF nodes[i].data["v"].t = "Number" THEN nodes[i].data["v"].n[k] ELSE 0)

\* the exact sum of all numbers, reduced modulo 2^64
WrappedTotal ==
    LET t4 == LimbTotal(4, Len(nodes))
        t3 == LimbTotal(3, Len(nodes)) + (t4 \div 65536)
        t2 == LimbTotal(2, Len(nodes)) + (t3 \div 65536)
        t1 == LimbTotal(1, Len(nodes)) + (t2 \div 65536)
    IN  <<t1 % 65536, t2 % 65536, t3 % 65536, t4 % 65536>>

IsSumQuery == Called /\ Items = <<Item(Aggregate("Sum", "n", Some("v")))>>

\* C27: SUM(n.v) returns a number on every graph and the call is never
\* aborted; the number is the sum of the values reduced to 64-bit signed
\* arithmetic, also when the running total leaves the i64 range.
C27_SumWraps ==
    IsSumQuery =>
        /\ R.tag = "Ok"
        /\ R.rows = <<[c \in {"SUM(n.v)"} |-> JNumber(WrappedTotal)]>>

\* C28: in every QueryResult each row holds exactly one value for each entry
\* of columns: a row has columns.len() keys, one for every RETURN item, also
\* when two items have the same column name.
C28_RowPerColumn ==
    (Called /\ R.tag = "Ok") =>
        /\ Len(R.columns) = Len(Items)
        /\ \A k \in 1..Len(R.rows) :
              /\ Cardinality(DOMAIN R.rows[k]) = Len(R.columns)
              /\ \A i \in 1..Len(R.columns) : R.columns[i] \in DOMAIN R.rows[k]

\* the 0-based index of the last node with this id
LastWithId(id) ==
    CHOOSE k \in 0..(Len(nodes) - 1) :
        /\ nodes[k + 1].id = id
        /\ \A j \in (k + 2)..Len(nodes) : nodes[j].id # id

\* C29: add_node returns the number of nodes present before the call and
\* appends the node, leaving the earlier nodes in place; get_node_index(id) is
\* the index of the most recently added node with that id, which is smaller
\* than nodes.len(), and get_node(id) is that node; both return None for an id
\* that was never added.
C29_AddNodeLookup ==
    /\ [](api # None =>
            IF Unwrap(api).call = "add_node"
            THEN Unwrap(api).idx = Len(nodes) - 1
            ELSE IF \E k \in 1..Len(nodes) : nodes[k].id = Unwrap(api).id
                 THEN /\ Unwrap(api).index = Some(LastWithId(Unwrap(api).id))
                      /\ Unwrap(Unwrap(api).index) < Len(nodes)
                      /\ Unwrap(api).node = Some(nodes[LastWithId(Unwrap(api).id) + 1])
                 ELSE Unwrap(api).index = None /\ Unwrap(api).node = None)
    /\ [][nodes' # nodes =>
            /\ Len(nodes') = Len(nodes) + 1
            /\ SubSeq(nodes', 1, Len(nodes)) = nodes
            /\ Unwrap(api').call = "add_node" /\ Unwrap(api').idx = Len(nodes)]_vars

\* the id "1" looked up after it was added twice: index 1, the second node
C29_Witness ==
    /\ Len(nodes) = 2 /\ nodes[1].id = <<49>> /\ nodes[2].id = <<49>>
    /\ api # None /\ Unwrap(api).call = "get_node"
    /\ Unwrap(api).id = <<49>> /\ Unwrap(api).index = Some(1)

Built == Unwrap(api)
IsBuilt == api # None /\ Built.call = "build_graph_from_json" /\ Built.json.kind = "array"

\* the relation entries of element k (1-based) that name the id of a node
NamingEntries(k) ==
    LET rel == Built.json.elements[k].knows
        all == CASE rel.kind = "array"  -> rel.entries
                 [] rel.kind = "string" -> <<Some(rel.to)>>
                 [] OTHER               -> <<>>
        names(entry) == entry # None /\ \E j \in 1..Len(nodes) : nodes[j].id = entry[1]
    IN  SelectSeq(all, names)

\* for every such entry, in the order of the elements: the element and the id
Holders ==
    ConcatAll([k \in 1..Len(Built.json.elements) |->
                  [j \in 1..Len(NamingEntries(k)) |->
                      [holder |-> k - 1, to_id |-> NamingEntries(k)[j][1]]]])

\* C30: build_graph_from_json makes one node per element of the node array, in
\* array order, and one edge per relation entry naming the id of an existing
\* node, of the relation field's type, from the node that holds the entry to a
\* node with the named id; other entries are skipped and all edge ends are
\* smaller than the number of nodes. An element without a string id makes the
\* build fail and no graph is returned.
C30_BuildFromJson ==
    IsBuilt =>
        IF \E k \in 1..Len(Built.json.elements) : Built.json.elements[k].id = None
        THEN ~Built.ok /\ nodes = <<>> /\ edges = <<>>
        ELSE /\ Built.ok
             /\ Len(nodes) = Len(Built.json.elements)
             /\ \A k \in 1..Len(nodes) : nodes[k].id = Built.json.elements[k].id[1]
             /\ Len(edges) = Len(Holders)
             /\ \A k \in 1..Len(edges) :
                   /\ edges[k].from = Holders[k].holder
                   /\ edges[k].to < Len(nodes) /\ edges[k].from < Len(nodes)
                   /\ nodes[edges[k].to + 1].id = Holders[k].to_id
                   /\ edges[k].rel_type = Knows

====
